---- MODULE Spec2Model ----
(***************************************************************************)
(* Shrdlite: goal interpretation (Interpreter.ts), the planner's state     *)
(* graph, goal test, heuristic and plan rendering (Planner), the generic   *)
(* A* search (Graph) and the world utilities (Util).                       *)
(*                                                                         *)
(* Costs are rationals in the program (1 + 10*(N-h)/N).  The model keeps   *)
(* them exact by carrying every cost multiplied by N = numObjects, the     *)
(* number the graph's constructor counts once per search; "cost >= 1" of   *)
(* the program is "cost >= numObjects" here, and comparisons between costs *)
(* of one search are unchanged by the common factor.                       *)
(***************************************************************************)
EXTENDS Integers, Sequences, FiniteSets, TLC

\* ------------------------------------------------------------------------
\* Bounds of the model
\* ------------------------------------------------------------------------
NumCols == 3        \* number of columns of the worlds explored
NumObjs == 2        \* number of objects present in a world (stacked or held)
MaxHops == 4        \* longest alternative walk compared with a returned path
MaxBatch == 2       \* longest list of interpretations given to plan()
MaxClause == 2      \* most literals in a clause of a CNF
MaxClauses == 3     \* most clauses in a CNF

\* ------------------------------------------------------------------------
\* World data
\* ------------------------------------------------------------------------
NULL == "null"      \* holding === null (nothing held)
FLOOR == "floor"

\* The objects of the worlds explored: a large table, a small ball, a large box.
Objs == {"g", "f", "k"}

objects ==
    [ g |-> [form |-> "table", size |-> "large", color |-> "blue"],
      f |-> [form |-> "ball",  size |-> "small", color |-> "black"],
      k |-> [form |-> "box",   size |-> "large", color |-> "yellow"] ]

FloorDef == [form |-> "floor", size |-> ""]

FormSize(id) == [form |-> objects[id].form, size |-> objects[id].size]

Relations == {"leftof", "rightof", "inside", "ontop", "under", "beside", "above"}

\* ------------------------------------------------------------------------
\* Small helpers on sequences
\* ------------------------------------------------------------------------
Range(s) == { s[i] : i \in 1..Len(s) }

contains(list, element) == element \in Range(list)

Min(S) == CHOOSE x \in S : \A y \in S : x <= y
Max(S) == CHOOSE x \in S : \A y \in S : x >= y

Abs(x) == IF x < 0 THEN -x ELSE x

\* [].concat.apply([], stacks), as a set of identifiers
Flatten(stacks) == UNION { Range(stacks[i]) : i \in 1..Len(stacks) }

\* number of identifiers stored in the stacks
CountStacked(stacks) == Cardinality(Flatten(stacks))

\* ------------------------------------------------------------------------
\* Util.isValidRelation: "true", "false", or one of the two floor errors
\* ------------------------------------------------------------------------
ErrNothingFloor == "Nothing can be <relation> the floor"
ErrFloorCannot  == "The floor cannot be <relation> anything"

RECURSIVE isValidRelation(_, _, _)

\* mutant: "under" is answered as "above" without swapping the objects
isValidRelation_unswapped(lhs, relation, rhs) ==
    IF rhs.form = "floor" /\ ~(relation = "ontop" \/ relation = "above")
    THEN ErrNothingFloor
    ELSE IF lhs.form = "floor" /\ relation # "under"
    THEN ErrFloorCannot
    ELSE IF relation = "ontop" THEN
        IF rhs.form = "box" \/ rhs.form = "ball" THEN "false"
        ELSE IF lhs.form = "ball" /\ rhs.form # "floor" THEN "false"
        ELSE IF lhs.size = "large" /\ rhs.size = "small" THEN "false"
        ELSE IF lhs.form = "box" /\ rhs.size = "small"
                /\ (rhs.form = "brick" \/ rhs.form = "pyramid") THEN "false"
        ELSE IF lhs.form = "box" /\ lhs.size = "large" /\ rhs.form = "pyramid"
        THEN "false"
        ELSE "true"
    ELSE IF relation = "inside" THEN
        IF rhs.form # "box" THEN "false"
        ELSE IF rhs.size = lhs.size
                /\ (lhs.form # "ball" /\ lhs.form # "brick" /\ lhs.form # "table")
        THEN "false"
        ELSE IF rhs.size = "small" /\ lhs.size = "large" THEN "false"
        ELSE "true"
    ELSE IF relation = "above" THEN
        IF rhs.form = "ball" THEN "false"
        ELSE IF lhs.size = "large" /\ rhs.size = "small" THEN "false"
        ELSE "true"
    ELSE IF relation = "under" THEN isValidRelation(lhs, "above", rhs)
    ELSE "true"

isValidRelation(lhs, relation, rhs) ==
    IF rhs.form = "floor" /\ ~(relation = "ontop" \/ relation = "above")
    THEN ErrNothingFloor
    ELSE IF lhs.form = "floor" /\ relation # "under"
    THEN ErrFloorCannot
    ELSE IF relation = "ontop" THEN
        IF rhs.form = "box" \/ rhs.form = "ball" THEN "false"
        ELSE IF lhs.form = "ball" /\ rhs.form # "floor" THEN "false"
        ELSE IF lhs.size = "large" /\ rhs.size = "small" THEN "false"
        ELSE IF lhs.form = "box" /\ rhs.size = "small"
                /\ (rhs.form = "brick" \/ rhs.form = "pyramid") THEN "false"
        ELSE IF lhs.form = "box" /\ lhs.size = "large" /\ rhs.form = "pyramid"
        THEN "false"
        ELSE "true"
    ELSE IF relation = "inside" THEN
        IF rhs.form # "box" THEN "false"
        ELSE IF rhs.size = lhs.size
                /\ (lhs.form # "ball" /\ lhs.form # "brick" /\ lhs.form # "table")
        THEN "false"
        ELSE IF rhs.size = "small" /\ lhs.size = "large" THEN "false"
        ELSE "true"
    ELSE IF relation = "above" THEN
        IF rhs.form = "ball" THEN "false"
        ELSE IF lhs.size = "large" /\ rhs.size = "small" THEN "false"
        ELSE "true"
    ELSE IF relation = "under" THEN isValidRelation(rhs, "above", lhs)
    ELSE "true"

\* ------------------------------------------------------------------------
\* Util.findStack: index (from 0) of the column holding id, or -1
\* ------------------------------------------------------------------------
findStack(id, stacks) ==
    LET hits == { i \in 0..(Len(stacks) - 1) : contains(stacks[i + 1], id) }
    IN  IF hits = {} THEN -1 ELSE Max(hits)

\* Array.indexOf on a column: position (from 0) of id, or -1
indexOf(stack, id) ==
    LET hits == { y \in 0..(Len(stack) - 1) : stack[y + 1] = id }
    IN  IF hits = {} THEN -1 ELSE Min(hits)

\* ------------------------------------------------------------------------
\* Util.shortestDescription.  A string is kept as the sequence of the pieces
\* it is concatenated from.
\* ------------------------------------------------------------------------
propertyCombinations == << <<"form">>, <<"color", "form">>, <<"size", "form">> >>

allProperties == <<"size", "color", "form">>

\* every property of the set has the same value in both definitions
sameOn(propertySet, objectDef, otherDef) ==
    \A p \in 1..Len(propertySet) : objectDef[propertySet[p]] = otherDef[propertySet[p]]

isUnique(objectKey, objs, stacks, propertySet) ==
    \A i \in 1..Len(stacks) : \A y \in 1..Len(stacks[i]) :
        \/ objectKey = stacks[i][y]
        \/ ~sameOn(propertySet, objs[objectKey], objs[stacks[i][y]])

\* Util.find: the first element that meets the condition, or notFoundValue;
\* condition[i] tells whether element i meets it
find(list, condition, notFoundValue) ==
    IF \E i \in 1..Len(list) : condition[i]
    THEN list[Min({ i \in 1..Len(list) : condition[i] })]
    ELSE notFoundValue

\* Array.join(" ")
RECURSIVE join(_, _)
join(values, i) ==
    IF i > Len(values) THEN <<>>
    ELSE (IF i > 1 THEN <<" ">> ELSE <<>>) \o <<values[i]>> \o join(values, i + 1)

valuesOf(objectDef, propertySet) ==
    [p \in 1..Len(propertySet) |-> objectDef[propertySet[p]]]

\* src/unnamed/part_003
shortestDescription(objectKey, objs, stacks) ==
    join(valuesOf(objs[objectKey],
                  find(propertyCombinations,
                       [i \in 1..Len(propertyCombinations) |->
                           isUnique(objectKey, objs, stacks, propertyCombinations[i])],
                       allProperties)),
         1)

\* an array, even an empty one, is truthy
truthy(list) == TRUE

\* reduce((prev, curr) => prev + " " + objects[objectKey][curr], "")
RECURSIVE reduce(_, _, _)
reduce(objectDef, propertySet, i) ==
    IF i > Len(propertySet) THEN <<>>
    ELSE <<" ", objectDef[propertySet[i]]>> \o reduce(objectDef, propertySet, i + 1)

\* the property set chosen by src/Util.ts; <<>> stands for undefined
selected(uniquePropertySets) ==
    IF truthy(uniquePropertySets)
    THEN (IF Len(uniquePropertySets) > 0 THEN uniquePropertySets[1] ELSE <<>>)
    ELSE allProperties

\* src/Util.ts: the text returned, or the TypeError of undefined.reduce
UtilShortestDescription(objectKey, objs, stacks) ==
    LET chosen == selected(SelectSeq(propertyCombinations,
                       LAMBDA propertySet : isUnique(objectKey, objs, stacks, propertySet)))
    IN  IF chosen = <<>>
        THEN [err |-> "TypeError", val |-> <<>>]
        ELSE [err |-> "", val |-> reduce(objs[objectKey], chosen, 1)]

\* ------------------------------------------------------------------------
\* Planner: search states and the state graph
\* ------------------------------------------------------------------------
SearchState(stacks, holding, arm) ==
    [stacks |-> stacks, holding |-> holding, arm |-> arm]

worldToSearchState(worldState) ==
    SearchState(worldState.stacks, worldState.holding, worldState.arm)

\* SearchStateGraph.constructor: the objects counted are those in the stacks
numObjects(worldState) == CountStacked(worldState.stacks)

carryCost == 2
carryLargeCost == 2
maxPickupCost == 10

Edge(to, cost) == [to |-> to, cost |-> cost]

\* cost of an arm move, times n
moveCost(node, n) ==
    n * (1 + (IF node.holding # NULL
              THEN carryCost + (IF objects[node.holding].size = "large"
                                THEN carryLargeCost ELSE 0)
              ELSE 0))

\* 1 + maxPickupCost*(numObjects - height)/numObjects, times n
pickupCost(node, n) ==
    n + maxPickupCost * (n - Len(node.stacks[node.arm + 1]))

leftEdges(node, n) ==
    IF node.arm > 0
    THEN { Edge(SearchState(node.stacks, node.holding, node.arm - 1), moveCost(node, n)) }
    ELSE {}

rightEdges(node, n) ==
    IF node.arm < Len(node.stacks) - 1
    THEN { Edge(SearchState(node.stacks, node.holding, node.arm + 1), moveCost(node, n)) }
    ELSE {}

\* pickEdges with the object left on its column
pickEdges_withoutPop(node, n) ==
    IF node.holding = NULL /\ Len(node.stacks[node.arm + 1]) > 0
    THEN LET col == node.stacks[node.arm + 1]
             hold == col[Len(col)]
         IN  { Edge(SearchState(node.stacks, hold, node.arm), pickupCost(node, n)) }
    ELSE {}

pickEdges(node, n) ==
    IF node.holding = NULL /\ Len(node.stacks[node.arm + 1]) > 0
    THEN LET col == node.stacks[node.arm + 1]
             hold == col[Len(col)]
             tempStacks == [node.stacks EXCEPT ![node.arm + 1] = SubSeq(col, 1, Len(col) - 1)]
         IN  { Edge(SearchState(tempStacks, hold, node.arm), pickupCost(node, n)) }
    ELSE {}

\* mutant: the held object is dropped on any column
dropEdges_anywhere(node, n) ==
    IF node.holding # NULL
    THEN { Edge(SearchState([node.stacks EXCEPT ![node.arm + 1] = Append(@, node.holding)],
                            NULL, node.arm),
                pickupCost(node, n)) }
    ELSE {}

dropEdges(node, n) ==
    IF node.holding = NULL /\ Len(node.stacks[node.arm + 1]) > 0 THEN {}
    ELSE IF node.holding # NULL THEN
        LET col == node.stacks[node.arm + 1]
            tempStacks == [node.stacks EXCEPT ![node.arm + 1] = Append(col, node.holding)]
        IN  IF Len(col) = 0
            THEN { Edge(SearchState(tempStacks, NULL, node.arm), n * (1 + maxPickupCost)) }
            ELSE LET topmostObject == col[Len(col)]
                     objectData == objects[topmostObject]
                     relation == IF objectData.form = "box" THEN "inside" ELSE "ontop"
                 IN  IF isValidRelation(FormSize(node.holding), relation,
                                        FormSize(topmostObject)) = "true"
                     THEN { Edge(SearchState(tempStacks, NULL, node.arm), pickupCost(node, n)) }
                     ELSE {}
    ELSE {}

outgoingEdges(node, n) ==
    leftEdges(node, n) \cup rightEdges(node, n) \cup pickEdges(node, n) \cup dropEdges(node, n)

\* ------------------------------------------------------------------------
\* Util.WorldObject.findRelated: the identifiers positionally related to the
\* object at column obj.stack, height obj.pos (both from 0; -1,-1 for the held
\* object).  fault is "" or the error the JavaScript raises.
\* ------------------------------------------------------------------------
WorldObject(id, stack, pos) == [id |-> id, stack |-> stack, pos |-> pos]

Related(ids) == [fault |-> "", ids |-> ids]
TypeError == "TypeError"
Faulted(what) == [fault |-> what, ids |-> {}]

findRelated(obj, stacks, relation) ==
    LET len == Len(stacks)
        defined == obj.stack >= 0 /\ obj.stack < len   \* stacks[this.stack] is a column
        col == stacks[obj.stack + 1]
    IN  IF relation = "leftof" THEN
            Related(IF obj.stack < len - 1
                    THEN UNION { Range(stacks[i]) : i \in (Max({obj.stack + 1, 0}) + 1)..len }
                    ELSE {})
        ELSE IF relation = "rightof" THEN
            Related(IF obj.stack > 0
                    THEN UNION { Range(stacks[i]) : i \in 1..obj.stack }
                    ELSE {})
        ELSE IF relation = "inside" THEN
            IF ~defined THEN Faulted(TypeError)
            ELSE Related(IF obj.pos - 1 >= 0 /\ obj.pos - 1 < Len(col)
                         THEN {col[obj.pos]} ELSE {})
        ELSE IF relation = "ontop" THEN
            IF obj.pos > 0
            THEN IF ~defined THEN Faulted(TypeError)
                 ELSE Related(IF obj.pos - 1 < Len(col) THEN {col[obj.pos]} ELSE {})
            ELSE Related({FLOOR})
        ELSE IF relation = "under" THEN
            IF ~defined THEN Faulted(TypeError)
            ELSE Related({ col[y] : y \in (indexOf(col, obj.id) + 2)..Len(col) })
        ELSE IF relation = "beside" THEN
            Related((IF obj.stack > 0 THEN Range(stacks[obj.stack]) ELSE {})
                    \cup (IF obj.stack < len - 1 THEN Range(stacks[obj.stack + 2]) ELSE {}))
        ELSE IF relation = "above" THEN
            IF ~defined THEN Faulted(TypeError)
            ELSE Related({FLOOR} \cup
                         (IF indexOf(col, obj.id) = -1
                          THEN { col[y] : y \in 1..(Len(col) - 1) }   \* slice(0, -1)
                          ELSE { col[y] : y \in 1..indexOf(col, obj.id) }))
        ELSE Faulted("Not implemented")

\* ------------------------------------------------------------------------
\* Goal formulas
\* ------------------------------------------------------------------------
Literal(relation, args) == [polarity |-> TRUE, relation |-> relation, args |-> args]

\* goalLiteral with an object taken to be related to itself
goalLiteral_selfRelated(literal, node) ==
    IF literal.relation = "holding" THEN
        IF literal.args[1] = node.holding THEN "true" ELSE "false"
    ELSE
        LET id == literal.args[1]
            stack == findStack(id, node.stacks)
        IN  IF id = node.holding THEN "false"
            ELSE IF stack = -1 THEN TypeError
            ELSE LET entity == WorldObject(id, stack, indexOf(node.stacks[stack + 1], id))
                     ids == findRelated(entity, node.stacks, literal.relation)
                 IN  IF ids.fault # "" THEN ids.fault
                     ELSE IF literal.args[2] \in ids.ids \cup {id} THEN "true" ELSE "false"

\* goal(interpretation)(node), one literal: "true", "false" or the fault raised
goalLiteral(literal, node) ==
    IF literal.relation = "holding" THEN
        IF literal.args[1] = node.holding THEN "true" ELSE "false"
    ELSE
        LET id == literal.args[1]
            stack == findStack(id, node.stacks)
        IN  IF id = node.holding THEN "false"
            ELSE IF stack = -1 THEN TypeError          \* node.stacks[-1].indexOf
            ELSE LET entity == WorldObject(id, stack, indexOf(node.stacks[stack + 1], id))
                     ids == findRelated(entity, node.stacks, literal.relation)
                 IN  IF ids.fault # "" THEN ids.fault
                     ELSE IF literal.args[2] \in ids.ids THEN "true" ELSE "false"

\* conjunction.every(...), left to right, stopping at the first false or fault
RECURSIVE goalEvery(_, _, _)
goalEvery(conjunction, i, node) ==
    IF i > Len(conjunction) THEN "true"
    ELSE LET r == goalLiteral(conjunction[i], node)
         IN  IF r = "true" THEN goalEvery(conjunction, i + 1, node) ELSE r

\* interpretation.some(...), left to right, stopping at the first true or fault
RECURSIVE goalSome(_, _, _)
goalSome(interpretation, i, node) ==
    IF i > Len(interpretation) THEN "false"
    ELSE LET r == goalEvery(interpretation[i], 1, node)
         IN  IF r = "false" THEN goalSome(interpretation, i + 1, node) ELSE r

goal(interpretation, node) == goalSome(interpretation, 1, node)

\* heuristics(interpretation)(node), one literal (in arm moves, not yet times n)
heuristicLiteral(literal, node) ==
    IF literal.relation = "holding" THEN
        LET pos == findStack(literal.args[1], node.stacks)
        IN  IF pos = -1 THEN 0 ELSE Abs(pos - node.arm) + 1
    ELSE IF literal.relation \in {"leftof", "rightof"} THEN
        LET f1 == findStack(literal.args[1], node.stacks)
            f2 == findStack(literal.args[2], node.stacks)
            pos1 == IF f1 = -1 THEN node.arm ELSE f1
            pos2 == IF f2 = -1 THEN node.arm ELSE f2
        IN  IF literal.relation = "leftof"
            THEN (IF pos1 < pos2 THEN 0 ELSE pos1 - pos2 + 2)
            ELSE (IF pos1 > pos2 THEN 0 ELSE pos2 - pos1 + 2)
    ELSE 0

\* Math.max.apply(null, []) is -Infinity and Math.min.apply(null, []) is
\* Infinity: a number beyond every cost stands for it
Infinity == 1000000

isFinite(x) == x # Infinity /\ x # -Infinity

\* Math.max.apply over the literals of a conjunction
maxOfLiterals(conjunction, node) ==
    IF Len(conjunction) = 0 THEN -Infinity
    ELSE Max({ heuristicLiteral(conjunction[l], node) : l \in 1..Len(conjunction) })

\* Math.min.apply over the conjunctions
minOfConjunctions(interpretation, node) ==
    IF Len(interpretation) = 0 THEN Infinity
    ELSE Min({ maxOfLiterals(interpretation[c], node) : c \in 1..Len(interpretation) })

\* a heuristic value in arm moves, times n
times(n, h) == IF isFinite(h) THEN n * h ELSE h

\* min over the conjunctions of the max over their literals, times n
heuristics(interpretation, node, n) == times(n, minOfConjunctions(interpretation, node))

\* ------------------------------------------------------------------------
\* Interpreter.  A function that may throw returns [err, val]: err is "" and
\* val the value returned, or err is the message of the error raised.
\*
\* Parse trees: Command = [command, entity?, location?], Entity = [quantifier,
\* object], Location = [relation, entity]; an Object is either
\* [form, size, color] ("" for a property that is not given) or
\* [object, location].
\* ------------------------------------------------------------------------
Ok(val) == [err |-> "", val |-> val]
Fail(message) == [err |-> message, val |-> <<>>]

ErrNoEntity       == "No entity specified in move"
ErrNoSuchEntity   == "No such entity found"
ErrPickUpFloor    == "Can not pick up the floor"
ErrAmbiguous      == "Ambiguous entity"
ErrNotHolding     == "Not holding any object"
ErrTakeSingle     == "Can only take a single object"
ErrNoValid        == "No valid solution found for the utterance"
ErrUnknownCommand == "Unknown command"

\* ids? of findCandidates: undefined, or a list (kept as the set of its elements)
NoIds == [given |-> FALSE, ids |-> {}]
Ids(set) == [given |-> TRUE, ids |-> set]

\* descr.object.form, undefined for an object with a location
formOf(o) == IF "form" \in DOMAIN o THEN o.form ELSE "undefined"

\* isCandidate: the locations pushed by the while loop, outermost first
RECURSIVE locationsOf(_)
locationsOf(o) ==
    IF "location" \in DOMAIN o THEN <<o.location>> \o locationsOf(o.object) ELSE <<>>

\* isCandidate: the object the while loop ends on
RECURSIVE innermost(_)
innermost(o) == IF "location" \in DOMAIN o THEN innermost(o.object) ELSE o

\* the world objects in the order findCandidates visits them: each stack from
\* the floor up, left to right, then the held object at (-1, -1)
RECURSIVE stackObjects(_, _, _)
stackObjects(stacks, x, y) ==
    IF x >= Len(stacks) THEN <<>>
    ELSE IF y >= Len(stacks[x + 1]) THEN stackObjects(stacks, x + 1, 0)
    ELSE <<WorldObject(stacks[x + 1][y + 1], x, y)>> \o stackObjects(stacks, x, y + 1)

visitOrder(state) ==
    stackObjects(state.stacks, 0, 0)
    \o (IF state.holding # NULL THEN <<WorldObject(state.holding, -1, -1)>> ELSE <<>>)

RECURSIVE findCandidates(_, _, _)
RECURSIVE isCandidate(_, _, _)
RECURSIVE locationsEvery(_, _, _, _, _)
RECURSIVE collectCandidates(_, _, _, _, _)

\* what the callback of locations.every returns for the candidates found
locationHolds(descr, related, candidates) ==
    IF descr.quantifier # "all"
    THEN Len(candidates) > 0
    ELSE /\ Len(candidates) > 0
         /\ \A k \in 1..Len(candidates) : candidates[k] \in related

\* locations.every(...): the i-th location once findCandidates has answered
everyLocated(locations, i, obj, descr, state, related, candidates) ==
    IF candidates.err # "" THEN Fail(candidates.err)
    ELSE IF locationHolds(descr, related, candidates.val)
    THEN locationsEvery(locations, i + 1, obj, descr, state)
    ELSE Ok(FALSE)

\* locations.every(...): the i-th location once findRelated has answered
everyRelated(locations, i, obj, descr, state, related) ==
    IF related.fault # "" THEN Fail(related.fault)
    ELSE everyLocated(locations, i, obj, descr, state, related.ids,
                      findCandidates(locations[i].entity, state,
                                     IF descr.quantifier # "all"
                                     THEN Ids(related.ids) ELSE NoIds))

\* locations.every(...) of isCandidate, from the i-th location on
locationsEvery(locations, i, obj, descr, state) ==
    IF i > Len(locations) THEN Ok(TRUE)
    ELSE everyRelated(locations, i, obj, descr, state,
                      findRelated(obj, state.stacks, locations[i].relation))

\* properties.every(...) of isCandidate, on the innermost object o
validProps(o, def) ==
    /\ (o.color # "" => o.color = def.color)
    /\ (o.size # "" => o.size = def.size)
    /\ (o.form # "anyform" => (o.form # "" => o.form = def.form))

isCandidate(obj, descr, state) ==
    IF ~validProps(innermost(descr.object), objects[obj.id]) THEN Ok(FALSE)
    ELSE locationsEvery(locationsOf(descr.object), 1, obj, descr, state)

\* candidates.push(worldObject) when isCandidate answered true
pushCandidate(id, is, rest) ==
    IF is.err # "" THEN Fail(is.err)
    ELSE IF rest.err # "" THEN Fail(rest.err)
    ELSE Ok((IF is.val THEN <<id>> ELSE <<>>) \o rest.val)

\* the two loops of findCandidates over the world objects, from the i-th on
collectCandidates(order, i, descr, state, ids) ==
    IF i > Len(order) THEN Ok(<<>>)
    ELSE IF ids.given /\ order[i].id \notin ids.ids
    THEN collectCandidates(order, i + 1, descr, state, ids)
    ELSE pushCandidate(order[i].id, isCandidate(order[i], descr, state),
                       collectCandidates(order, i + 1, descr, state, ids))

\* mutant: more than one candidate is returned for "the"
handleQuantifier_noAmbiguous(descr, candidates) == candidates

\* the switch of findCandidates on descr.quantifier
handleQuantifier(descr, candidates) ==
    IF candidates.err # "" THEN candidates
    ELSE IF descr.quantifier = "the" /\ Len(candidates.val) > 1
    THEN Fail(ErrAmbiguous)
    ELSE candidates

findCandidates(descr, state, ids) ==
    IF formOf(descr.object) = "floor" /\ (~ids.given \/ FLOOR \in ids.ids)
    THEN Ok(<<FLOOR>>)
    ELSE handleQuantifier(descr,
                          collectCandidates(visitOrder(state), 1, descr, state, ids))

\* mutant: the pairing is never flipped
toCNF_unflipped(arr1, arr2, relation, flipped) ==
    [ i \in 1..Len(arr1) |->
        [ j \in 1..Len(arr2) |-> Literal(relation, <<arr1[i], arr2[j]>>) ] ]

\* toCNF: one disjunction per element of arr1 (of arr2 when flipped)
toCNF(arr1, arr2, relation, flipped) ==
    LET outer == IF flipped THEN arr2 ELSE arr1
        inner == IF flipped THEN arr1 ELSE arr2
    IN  [ i \in 1..Len(outer) |->
            [ j \in 1..Len(inner) |->
                Literal(relation,
                        IF flipped THEN <<inner[j], outer[i]>> ELSE <<outer[i], inner[j]>>) ] ]

\* mutant: every literal starts a conjunction of its own
distribute_alone(clause, i, curr) == [ k \in 1..Len(clause) |-> <<clause[k]>> ]

\* the for loop of innerCNFtoDNF over the literals of rest[0], from the i-th on
RECURSIVE distribute(_, _, _)
distribute(clause, i, curr) ==
    IF i > Len(clause) THEN <<>>
    ELSE (IF Len(curr) = 0
          THEN << <<clause[i]>> >>
          ELSE [ c \in 1..Len(curr) |-> Append(curr[c], clause[i]) ])
         \o distribute(clause, i + 1, curr)

RECURSIVE innerCNFtoDNF(_, _)
innerCNFtoDNF(curr, rest) ==
    IF Len(rest) = 0 THEN curr
    ELSE innerCNFtoDNF(distribute(rest[1], 1, curr), Tail(rest))

CNFtoDNF(conjunction) == innerCNFtoDNF(<<>>, conjunction)

equalLiterals(lhs, rhs) ==
    /\ lhs.args[1] = rhs.args[1]
    /\ lhs.args[2] = rhs.args[2]
    /\ lhs.polarity = rhs.polarity
    /\ lhs.relation = rhs.relation

\* checkInsideOnTop, from the i-th literal on; occurences[1], occurences[2]
\* are the first and second arguments seen so far
RECURSIVE checkFrom(_, _, _)
checkFrom(conjunction, i, occurences) ==
    IF i > Len(conjunction) THEN TRUE
    ELSE LET literal == conjunction[i]
         IN  IF literal.relation = "ontop" \/ literal.relation = "inside"
             THEN LET a == literal.args[1]
                      b == literal.args[2]
                      occ1 == IF a = FLOOR THEN occurences[1] ELSE occurences[1] \cup {a}
                      occ2 == IF b = FLOOR THEN occurences[2] ELSE occurences[2] \cup {b}
                  IN  IF a # FLOOR /\ a \in occurences[1] THEN FALSE
                      ELSE IF b # FLOOR /\ b \in occurences[2] THEN FALSE
                      ELSE checkFrom(conjunction, i + 1, <<occ1, occ2>>)
             ELSE checkFrom(conjunction, i + 1, occurences)

checkInsideOnTop(conjunction) == checkFrom(conjunction, 1, <<{}, {}>>)

\* mutant: no conjunction is discarded
filterChecked_keepAll(interp, i) == interp

\* Array.filter with a predicate that cannot throw
RECURSIVE filterChecked(_, _)
filterChecked(interp, i) ==
    IF i > Len(interp) THEN <<>>
    ELSE (IF checkInsideOnTop(interp[i]) THEN <<interp[i]>> ELSE <<>>)
         \o filterChecked(interp, i + 1)

\* the definition handed to isValidRelation for an identifier
defOf(id) == IF id = FLOOR THEN FloorDef ELSE FormSize(id)

\* conjunction.every stops at the first literal that is not valid
everyStep(r, rest) == IF r = "true" THEN rest ELSE r

\* conjunction.every(literal => isValidRelation(...)) of interpretMove, from
\* the i-th literal on: "true", "false", or the error raised
RECURSIVE everyValidMove(_, _)
everyValidMove(conjunction, i) ==
    IF i > Len(conjunction) THEN "true"
    ELSE everyStep(isValidRelation(FormSize(conjunction[i].args[1]),
                                   conjunction[i].relation,
                                   defOf(conjunction[i].args[2])),
                   everyValidMove(conjunction, i + 1))

\* conjunction.every(literal => isValidRelation(...)) of interpretPut: entity
\* is the held object, relativeTo is looked up from literal.args[0]
RECURSIVE everyValidPut(_, _, _)
everyValidPut(conjunction, i, holding) ==
    IF i > Len(conjunction) THEN "true"
    ELSE everyStep(isValidRelation(FormSize(holding),
                                   conjunction[i].relation,
                                   defOf(conjunction[i].args[1])),
                   everyValidPut(conjunction, i + 1, holding))

\* Array.filter keeps the conjunction when its callback answered true
keepValid(conjunction, keep, rest) ==
    IF keep \notin {"true", "false"} THEN Fail(keep)
    ELSE IF rest.err # "" THEN rest
    ELSE Ok((IF keep = "true" THEN <<conjunction>> ELSE <<>>) \o rest.val)

\* interpretation.filter(...) of interpretMove, from the i-th conjunction on
RECURSIVE filterValidMove(_, _)
filterValidMove(interp, i) ==
    IF i > Len(interp) THEN Ok(<<>>)
    ELSE keepValid(interp[i], everyValidMove(interp[i], 1), filterValidMove(interp, i + 1))

\* interpretation.filter(...) of interpretPut, from the i-th conjunction on
RECURSIVE filterValidPut(_, _, _)
filterValidPut(interp, i, holding) ==
    IF i > Len(interp) THEN Ok(<<>>)
    ELSE keepValid(interp[i], everyValidPut(interp[i], 1, holding),
                   filterValidPut(interp, i + 1, holding))

\* interpretation.push([literal]) when isValidRelation answered true
pushPair(relation, candidate, relativeTo, r, rest) ==
    IF r \notin {"true", "false"} THEN Fail(r)
    ELSE IF rest.err # "" THEN rest
    ELSE Ok((IF r = "true"
             THEN << <<Literal(relation, <<candidate, relativeTo>>)>> >>
             ELSE <<>>) \o rest.val)

\* the nested loops of the branch without "all", over the pairs
\* (candidates[i], relativeToCandidates[j]) from (i, j) on
RECURSIVE pairLoop(_, _, _, _, _)
pairLoop(candidates, relativeToCandidates, relation, i, j) ==
    IF i > Len(candidates) THEN Ok(<<>>)
    ELSE IF j > Len(relativeToCandidates)
    THEN pairLoop(candidates, relativeToCandidates, relation, i + 1, 1)
    ELSE IF candidates[i] = relativeToCandidates[j]
    THEN pairLoop(candidates, relativeToCandidates, relation, i, j + 1)
    ELSE pushPair(relation, candidates[i], relativeToCandidates[j],
                  isValidRelation(objects[candidates[i]], relation,
                                  IF relativeToCandidates[j] = FLOOR THEN FloorDef
                                  ELSE objects[relativeToCandidates[j]]),
                  pairLoop(candidates, relativeToCandidates, relation, i, j + 1))

\* the flattening of interpretMove when both quantifiers are "all": the
\* literals of all conjunctions, in order, without repetition
RECURSIVE flattenInto(_, _)
flattenInto(literals, filtered) ==
    IF Len(literals) = 0 THEN filtered
    ELSE flattenInto(Tail(literals),
                     IF \E k \in 1..Len(filtered) : equalLiterals(filtered[k], literals[1])
                     THEN filtered ELSE Append(filtered, literals[1]))

RECURSIVE concatAll(_)
concatAll(seqs) == IF Len(seqs) = 0 THEN <<>> ELSE seqs[1] \o concatAll(Tail(seqs))

\* interpretMove after the filter, in the branch with an "all"
flattened(cmd, kept) ==
    IF kept.err # "" THEN kept
    ELSE IF cmd.entity.quantifier = "all" /\ cmd.location.entity.quantifier = "all"
    THEN Ok(<< flattenInto(concatAll(kept.val), <<>>) >>)
    ELSE kept

interpretMove(cmd, state, candidates, relativeToCandidates) ==
    IF cmd.entity.quantifier # "all" /\ cmd.location.entity.quantifier # "all"
    THEN pairLoop(candidates, relativeToCandidates, cmd.location.relation, 1, 1)
    ELSE flattened(cmd,
                   filterValidMove(CNFtoDNF(toCNF(candidates, relativeToCandidates,
                                                  cmd.location.relation,
                                                  cmd.location.entity.quantifier = "all")),
                                   1))

\* mutant: "all" with several candidates is not refused
interpretTake_takeAll(command, worldState, candidates) ==
    Ok([ i \in 1..Len(candidates) |-> <<Literal("holding", <<candidates[i]>>)>> ])

interpretTake(command, worldState, candidates) ==
    IF Len(candidates) > 1 /\ command.entity.quantifier = "all"
    THEN Fail(ErrTakeSingle)
    ELSE Ok([ i \in 1..Len(candidates) |-> <<Literal("holding", <<candidates[i]>>)>> ])

\* the filter of the "all" branch looks up the definition of literal.args[0]
interpretPut(cmd, state, relativeToCandidates) ==
    IF state.holding = NULL THEN Fail(ErrNotHolding)
    ELSE IF cmd.location.entity.quantifier # "all"
    THEN pairLoop(<<state.holding>>, relativeToCandidates, cmd.location.relation, 1, 1)
    ELSE filterValidPut(CNFtoDNF(toCNF(<<state.holding>>, relativeToCandidates,
                                       cmd.location.relation, TRUE)),
                        1, state.holding)

\* the checks interpretCommand makes on the candidates found for cmd.entity
checkedCandidates(found) ==
    IF found.err # "" THEN found
    ELSE IF Len(found.val) < 1 THEN Fail(ErrNoSuchEntity)
    ELSE IF contains(found.val, FLOOR) THEN Fail(ErrPickUpFloor)
    ELSE found

\* interpretCommand: candidates, for a move or a take
entityCandidates(cmd, state) ==
    IF cmd.command = "move" \/ cmd.command = "take"
    THEN IF "entity" \notin DOMAIN cmd THEN Fail(ErrNoEntity)
         ELSE checkedCandidates(findCandidates(cmd.entity, state, NoIds))
    ELSE Ok(<<>>)

\* interpretCommand: relativeToCandidates, for a move or a put
locationCandidates(cmd, state) ==
    IF cmd.command = "move" \/ cmd.command = "put"
    THEN findCandidates(cmd.location.entity, state,
                        IF formOf(cmd.location.entity.object) = "floor"
                        THEN Ids({FLOOR}) ELSE NoIds)
    ELSE Ok(<<>>)

\* interpretCommand: the switch on cmd.command
switchCommand(cmd, state, candidates, relativeToCandidates) ==
    IF cmd.command = "move"
    THEN interpretMove(cmd, state, candidates, relativeToCandidates)
    ELSE IF cmd.command = "take"
    THEN interpretTake(cmd, state, candidates)
    ELSE IF cmd.command = "put"
    THEN interpretPut(cmd, state, relativeToCandidates)
    ELSE Fail(ErrUnknownCommand)

\* interpretCommand: the filter by checkInsideOnTop and the final test
checkedInterpretation(interpretation) ==
    IF interpretation.err # "" THEN interpretation
    ELSE IF Len(filterChecked(interpretation.val, 1)) <= 0 THEN Fail(ErrNoValid)
    ELSE Ok(filterChecked(interpretation.val, 1))

interpretCommandWith(cmd, state, candidates, relativeToCandidates) ==
    IF candidates.err # "" THEN candidates
    ELSE IF relativeToCandidates.err # "" THEN relativeToCandidates
    ELSE checkedInterpretation(
             switchCommand(cmd, state, candidates.val, relativeToCandidates.val))

interpretCommand(cmd, state) ==
    interpretCommandWith(cmd, state, entityCandidates(cmd, state),
                         locationCandidates(cmd, state))

\* ------------------------------------------------------------------------
\* The worlds explored: NumObjs of the objects are present (stacked or held),
\* the stacks are physically valid, and at least one object is stacked
\* (numObjects > 0).
\* ------------------------------------------------------------------------
RECURSIVE InjSeqs(_)
InjSeqs(S) ==
    {<<>>} \cup UNION { { <<x>> \o t : t \in InjSeqs(S \ {x}) } : x \in S }

ValidColumn(col) ==
    \A y \in 2..Len(col) :
        isValidRelation(FormSize(col[y]),
                        IF objects[col[y - 1]].form = "box" THEN "inside" ELSE "ontop",
                        FormSize(col[y - 1])) = "true"

Worlds ==
    { w \in [stacks : [1..NumCols -> InjSeqs(Objs)],
             holding : Objs \cup {NULL},
             arm : 0..(NumCols - 1)] :
        /\ \A i, j \in 1..NumCols : i # j => Range(w.stacks[i]) \cap Range(w.stacks[j]) = {}
        /\ w.holding \notin Flatten(w.stacks)
        /\ Cardinality(Flatten(w.stacks) \cup ({w.holding} \ {NULL})) = NumObjs
        /\ \A i \in 1..NumCols : ValidColumn(w.stacks[i])
        /\ CountStacked(w.stacks) > 0 }

\* ------------------------------------------------------------------------
\* The goal formulas explored in a world: every single literal over the
\* objects present, and the disjunction and the conjunction of rel(a,b) and
\* rel(a,floor) for rel in ontop, above.
\* ------------------------------------------------------------------------
Present(w) == Flatten(w.stacks) \cup ({w.holding} \ {NULL})

HoldingLiterals(w) == { Literal("holding", <<a>>) : a \in Present(w) }

BinaryLiterals(w) ==
    { Literal(r, <<p[1], p[2]>>)
      : r \in Relations, p \in { q \in Present(w) \X Present(w) : q[1] # q[2] } }
    \cup { Literal(r, <<a, FLOOR>>) : r \in {"ontop", "above"}, a \in Present(w) }

PairGoals(w) ==
    LET pairs == { p \in BinaryLiterals(w) \X BinaryLiterals(w) :
                     /\ p[1].relation = p[2].relation
                     /\ p[1].args[1] = p[2].args[1]
                     /\ p[1].args[2] # FLOOR
                     /\ p[2].args[2] = FLOOR }
    IN  { << <<p[1]>>, <<p[2]>> >> : p \in pairs } \cup { << <<p[1], p[2]>> >> : p \in pairs }

Goals(w) ==
    { <<<<l>>>> : l \in HoldingLiterals(w) \cup BinaryLiterals(w) } \cup PairGoals(w)

\* Costs (times n) of the walks of at most k edges from node that end in a
\* state satisfying the goal test.
RECURSIVE WalkCosts(_, _, _, _)
WalkCosts(node, interpretation, n, k) ==
    (IF goal(interpretation, node) = "true" THEN {0} ELSE {})
    \cup (IF k = 0 THEN {}
          ELSE UNION { { e.cost + c : c \in WalkCosts(e.to, interpretation, n, k - 1) }
                       : e \in outgoingEdges(node, n) })

\* ------------------------------------------------------------------------
\* Graph.aStarSearch: frontier nodes.  `path` is the chain of `previous`
\* pointers followed back to the start, ending with the node itself (what
\* toResult rebuilds); `cost` is g (times n).
\* ------------------------------------------------------------------------
\* JSON.stringify, the key function of the closed set, on a search state: the
\* text is kept as its sequence of tokens
quoted(s) == <<"\"", s, "\"">>

RECURSIVE joined(_, _)
joined(texts, i) ==
    IF i > Len(texts) THEN <<>>
    ELSE (IF i > 1 THEN <<",">> ELSE <<>>) \o texts[i] \o joined(texts, i + 1)

array(texts) == <<"[">> \o joined(texts, 1) \o <<"]">>

stringifyStack(stack) == array([i \in 1..Len(stack) |-> quoted(stack[i])])

stringifyHolding(holding) == IF holding = NULL THEN <<"null">> ELSE quoted(holding)

stringify_withoutArm(nd) ==
    <<"{", "\"stacks\":">> \o array([i \in 1..Len(nd.stacks) |-> stringifyStack(nd.stacks[i])])
        \o <<",", "\"holding\":">> \o stringifyHolding(nd.holding)
        \o <<"}">>

stringify(nd) ==
    <<"{", "\"stacks\":">> \o array([i \in 1..Len(nd.stacks) |-> stringifyStack(nd.stacks[i])])
        \o <<",", "\"holding\":">> \o stringifyHolding(nd.holding)
        \o <<",", "\"arm\":", ToString(nd.arm), "}">>

FrontierNode(nd, previous, cost) ==
    [node |-> nd,
     path |-> IF previous = <<>> THEN <<nd>> ELSE Append(previous.path, nd),
     cost |-> cost]

\* cost + h in floating point
plus(cost, h) == IF isFinite(h) THEN cost + h ELSE h

frontierValue(item, interpretation, n) ==
    plus(item.cost, heuristics(interpretation, item.node, n))

\* PriorityQueue.dequeue with FrontierNode.compare: an item of least
\* frontierValue; which one among equals depends on the heap's layout.
Dequeuable(front, interpretation, n) ==
    { it \in front :
        \A other \in front :
            frontierValue(it, interpretation, n) <= frontierValue(other, interpretation, n) }

\* mutant: the backtrace stops before the start node
toResult_withoutStart(item) ==
    [defined |-> TRUE, path |-> Tail(item.path), cost |-> item.cost]

toResult(item) == [defined |-> TRUE, path |-> item.path, cost |-> item.cost]

\* ------------------------------------------------------------------------
\* Planner.convertPathToPlan.  A plan element is a tuple: <<"l">>, <<"r">>,
\* <<"p">>, <<"d">> for the primitive actions, and <<verb, size, color, form>>
\* for the utterance verb + " the " + size + " " + color + " " + form.
\* ------------------------------------------------------------------------
Utterance(verb, id) == <<verb, objects[id].size, objects[id].color, objects[id].form>>

RECURSIVE convertFrom(_, _, _)

\* mutant: every drop is announced
convertFrom_everyDrop(path, i, pickedUpAnything) ==
    IF i > Len(path) - 1 THEN <<>>
    ELSE LET current == path[i]
             next == path[i + 1]
         IN  IF current.arm > next.arm THEN
                 << <<"l">> >> \o convertFrom(path, i + 1, pickedUpAnything)
             ELSE IF current.arm < next.arm THEN
                 << <<"r">> >> \o convertFrom(path, i + 1, pickedUpAnything)
             ELSE IF current.holding = NULL /\ next.holding # NULL THEN
                 << Utterance(IF i # Len(path) - 1 THEN "Moving" ELSE "Taking", next.holding),
                    <<"p">> >>
                 \o convertFrom(path, i + 1, TRUE)
             ELSE IF current.holding # NULL /\ next.holding = NULL THEN
                 << Utterance("Dropping", current.holding), <<"d">> >>
                 \o convertFrom(path, i + 1, FALSE)
             ELSE convertFrom(path, i + 1, pickedUpAnything)

convertFrom(path, i, pickedUpAnything) ==
    IF i > Len(path) - 1 THEN <<>>
    ELSE LET current == path[i]
             next == path[i + 1]
         IN  IF current.arm > next.arm THEN
                 << <<"l">> >> \o convertFrom(path, i + 1, pickedUpAnything)
             ELSE IF current.arm < next.arm THEN
                 << <<"r">> >> \o convertFrom(path, i + 1, pickedUpAnything)
             ELSE IF current.holding = NULL /\ next.holding # NULL THEN
                 << Utterance(IF i # Len(path) - 1 THEN "Moving" ELSE "Taking", next.holding),
                    <<"p">> >>
                 \o convertFrom(path, i + 1, TRUE)
             ELSE IF current.holding # NULL /\ next.holding = NULL THEN
                 (IF ~pickedUpAnything
                  THEN << Utterance("Dropping", current.holding) >> ELSE <<>>)
                 \o << <<"d">> >>
                 \o convertFrom(path, i + 1, FALSE)
             ELSE convertFrom(path, i + 1, pickedUpAnything)

\* mutant: the loop over the path starts one pair too late
convertPathToPlan_fromSecond(result) == convertFrom(result.path, 2, FALSE)

convertPathToPlan(result) == convertFrom(result.path, 1, FALSE)

AlreadyTrue == << <<"That is already true!">> >>

\* mutant: an empty plan is pushed as it is
planResult_noMessage(interpretation, input, result) ==
    [interpretation |-> interpretation, input |-> input, plan |-> convertPathToPlan(result)]

\* the body of plan()'s try block once aStarSearch has returned a path; the
\* result is the interpretation object itself (input tells which), with a plan
planResult(interpretation, input, result) ==
    LET p == convertPathToPlan(result)
    IN  [interpretation |-> interpretation,
         input |-> input,
         plan |-> IF Len(p) = 0 THEN AlreadyTrue ELSE p]

\* an Error object, told apart by the input whose processing raised it
Error(message, input) == [message |-> message, input |-> input]

\* mutant: the last error is thrown
batchResult_lastError(successes, errs) ==
    IF Len(successes) > 0
    THEN [status |-> "returned", value |-> successes]
    ELSE [status |-> "thrown", value |-> <<errs[Len(errs)]>>]

\* the end of plan() and of interpret(): the successes, or the first error
batchResult(successes, errs) ==
    IF Len(successes) > 0
    THEN [status |-> "returned", value |-> successes]
    ELSE [status |-> "thrown", value |-> <<errs[1]>>]

\* ------------------------------------------------------------------------
\* The lists of interpretations given to Planner.plan
\* ------------------------------------------------------------------------
BatchGoals(w) ==
    { <<<<l>>>> : l \in { x \in BinaryLiterals(w) : x.relation = "ontop" /\ x.args[2] # FLOOR } }

RECURSIVE SeqsOfLen(_, _)
SeqsOfLen(S, k) ==
    IF k = 0 THEN {<<>>}
    ELSE { Append(t, x) : t \in SeqsOfLen(S, k - 1), x \in S }

Batches(w) ==
    { <<g>> : g \in Goals(w) } \cup UNION { SeqsOfLen(BatchGoals(w), k) : k \in 2..MaxBatch }

\* ------------------------------------------------------------------------
\* Interpreter.interpret: the forEach over the parses, from the i-th on.
\* A result is the parse result object itself (input tells which), with its
\* interpretation.
\* ------------------------------------------------------------------------
\* the body of the forEach callback: push the result, or the error caught
pushResult(parses, i, r, rest) ==
    IF r.err = ""
    THEN [interpretations |->
              <<[input |-> i, parse |-> parses[i], interpretation |-> r.val]>>
              \o rest.interpretations,
          errors |-> rest.errors]
    ELSE [interpretations |-> rest.interpretations,
          errors |-> <<Error(r.err, i)>> \o rest.errors]

RECURSIVE interpretEach(_, _, _)
interpretEach(parses, i, currentState) ==
    IF i > Len(parses) THEN [interpretations |-> <<>>, errors |-> <<>>]
    ELSE pushResult(parses, i, interpretCommand(parses[i], currentState),
                    interpretEach(parses, i + 1, currentState))

\* the test after the loop
interpretResult(each) == batchResult(each.interpretations, each.errors)

interpret(parses, currentState) == interpretResult(interpretEach(parses, 1, currentState))

\* ------------------------------------------------------------------------
\* The parse trees explored
\* ------------------------------------------------------------------------
Quantifiers == {"the", "any", "all"}

Simple(form, size, color) == [form |-> form, size |-> size, color |-> color]
Entity(quantifier, object) == [quantifier |-> quantifier, object |-> object]
Location(relation, entity) == [relation |-> relation, entity |-> entity]
Complex(object, location) == [object |-> object, location |-> location]

TheFloor == Entity("the", Simple("floor", "", ""))

Descriptions ==
    { Simple(f, z, "") : f \in {"anyform", "ball", "table", "box"}, z \in {"", "large"} }
    \cup { Simple("anyform", "", "yellow"), Simple("pyramid", "", "") }

FlatEntities == { Entity(q, d) : q \in Quantifiers, d \in Descriptions } \cup {TheFloor}

\* entities with one location clause
InnerEntities ==
    { TheFloor, Entity("any", Simple("anyform", "", "")),
      Entity("all", Simple("anyform", "", "")), Entity("the", Simple("box", "", "")) }

NestedEntities ==
    { Entity(q, Complex(d, Location(r, e)))
      : q \in Quantifiers, d \in {Simple("anyform", "", ""), Simple("ball", "", "")},
        r \in Relations, e \in InnerEntities }

Entities == FlatEntities \cup NestedEntities

SourceEntities ==
    { Entity(q, Simple(f, "", "")) : q \in Quantifiers, f \in {"anyform", "ball"} }

\* the floor, with the quantifier "all"
AllFloor == Entity("all", Simple("floor", "", ""))

TargetEntities ==
    { Entity(q, Simple(f, "", "")) : q \in Quantifiers, f \in {"anyform", "box", "ball"} }
    \cup {TheFloor, AllFloor}

Take(entity) == [command |-> "take", entity |-> entity]
Put(location) == [command |-> "put", location |-> location]
Move(entity, location) == [command |-> "move", entity |-> entity, location |-> location]

Commands ==
    { Take(e) : e \in Entities }
    \cup { [command |-> "take"] }
    \cup { Put(Location(r, e)) : r \in Relations, e \in TargetEntities }
    \cup { Move(s, Location(r, e)) : s \in SourceEntities, r \in Relations, e \in TargetEntities }

\* the interpreter does not read the arm
InterpreterWorlds == { w \in Worlds : w.arm = 0 }

\* restrictions handed to findCandidates
Restrictions == { NoIds, Ids({FLOOR}), Ids({"f", "k"}) }

\* the parses of the utterances planned end to end
BatchCommands ==
    { Take(Entity("the", Simple("ball", "", ""))),
      Take(Entity("the", Simple("pyramid", "", ""))),
      Put(Location("ontop", TheFloor)),
      Put(Location("ontop", Entity("all", Simple("ball", "", "")))),
      Move(Entity("any", Simple("anyform", "", "")),
           Location("leftof", Entity("any", Simple("anyform", "", "")))) }

ParseBatches == UNION { SeqsOfLen(BatchCommands, k) : k \in 1..MaxBatch }

\* put and move commands whose location is "all <description>" with a
\* relation between columns
AllCommands ==
    { Put(Location(r, Entity("all", Simple(f, "", ""))))
      : r \in {"beside", "leftof", "rightof"}, f \in {"anyform", "box"} }
    \cup { Move(Entity(q, Simple("ball", "", "")), Location(r, Entity("all", Simple(f, "", ""))))
           : q \in {"the", "all"}, r \in {"beside", "leftof", "rightof"},
             f \in {"anyform", "box"} }

\* ------------------------------------------------------------------------
\* State
\* ------------------------------------------------------------------------
VARIABLES
    world,            \* the WorldState given to the planner / interpreter
    node,             \* the search state a walk of the state graph stands on
    interpretations,  \* plan(): the list of interpretations
    cur,              \* plan(): index (from 1) of the interpretation in the forEach
    plans,            \* plan(): the results pushed so far
    errors,           \* plan(): the errors caught so far
    pc,               \* "plan" (in the forEach), "search" (in aStarSearch), "done"
    frontier,         \* aStarSearch: the priority queue, as a set of frontier nodes
    visited,          \* aStarSearch: the closed set, as the set of its keys
    expanded,         \* history: the nodes that visited.add has taken in this search
    late,             \* aStarSearch: Date.now() - startTime > timeout * 1000
    path,             \* planInterpretation: what the last aStarSearch returned
    planOut,          \* what plan() returned or threw
    parses,           \* interpret(): the list of parses
    interpretOut,     \* what interpret() returned or threw
    descr,            \* findCandidates: the entity resolved
    ids,              \* findCandidates: the restriction
    found,            \* findCandidates: what it returned or threw
    input,            \* a function of Util or Interpreter called on its own: the arguments
    output            \* that function's result

searchVars == <<interpretations, cur, plans, errors, pc, frontier, visited, expanded,
                late, path, planOut>>

interpVars == <<parses, interpretOut, descr, ids, found>>

callVars == <<input, output>>

vars == <<world, node, searchVars, interpVars, callVars>>

NoPlanOut == [status |-> "none", value |-> <<>>]

\* aStarSearch returned undefined (or has not returned yet)
undefined == [defined |-> FALSE, path |-> <<>>, cost |-> 0]

\* no function is called on its own
NoInput == [function |-> "none"]
NoOutput == [done |-> FALSE]

NoCall ==
    /\ input = NoInput
    /\ output = NoOutput

NoInterpreter ==
    /\ NoCall
    /\ parses = <<>>
    /\ interpretOut = NoPlanOut
    /\ descr = TheFloor
    /\ ids = NoIds
    /\ found = Ok(<<>>)

Idle ==
    /\ interpretations = <<>>
    /\ cur = 0
    /\ plans = <<>>
    /\ errors = <<>>
    /\ pc = "idle"
    /\ frontier = {}
    /\ visited = {}
    /\ expanded = {}
    /\ late = FALSE
    /\ path = undefined
    /\ planOut = NoPlanOut

\* ------------------------------------------------------------------------
\* SpecGraph: walks of the planner's state graph from an initial world
\* ------------------------------------------------------------------------
GraphInit ==
    /\ world \in Worlds
    /\ node = worldToSearchState(world)
    /\ Idle
    /\ NoInterpreter

MoveLeft ==
    /\ \E e \in leftEdges(node, numObjects(world)) : node' = e.to
    /\ UNCHANGED <<world, searchVars, interpVars, callVars>>

MoveRight ==
    /\ \E e \in rightEdges(node, numObjects(world)) : node' = e.to
    /\ UNCHANGED <<world, searchVars, interpVars, callVars>>

Pick ==
    /\ \E e \in pickEdges(node, numObjects(world)) : node' = e.to
    /\ UNCHANGED <<world, searchVars, interpVars, callVars>>

Drop ==
    /\ \E e \in dropEdges(node, numObjects(world)) : node' = e.to
    /\ UNCHANGED <<world, searchVars, interpVars, callVars>>

GraphNext == MoveLeft \/ MoveRight \/ Pick \/ Drop

SpecGraph == GraphInit /\ [][GraphNext]_vars

\* ------------------------------------------------------------------------
\* SpecPlan: Planner.plan on a list of interpretations; each interpretation
\* is planned by planInterpretation, whose aStarSearch loop advances one
\* iteration per step.
\* ------------------------------------------------------------------------
PlanInit ==
    /\ world \in Worlds
    /\ node = worldToSearchState(world)
    /\ interpretations \in Batches(world)
    /\ cur = 1
    /\ plans = <<>>
    /\ errors = <<>>
    /\ pc = "plan"
    /\ frontier = {}
    /\ visited = {}
    /\ expanded = {}
    /\ late = FALSE
    /\ path = undefined
    /\ planOut = NoPlanOut
    /\ NoInterpreter

N == numObjects(world)
start == worldToSearchState(world)
interpretation == interpretations[cur]

\* planInterpretation up to the first iteration of aStarSearch's loop
StartSearch ==
    /\ pc = "plan"
    /\ cur <= Len(interpretations)
    /\ frontier' = { FrontierNode(start, <<>>, 0) }
    /\ visited' = {}
    /\ expanded' = {}
    /\ late' = FALSE
    /\ pc' = "search"
    /\ path' = undefined
    /\ UNCHANGED <<interpVars, callVars>>
    /\ UNCHANGED <<world, node, interpretations, cur, plans, errors, planOut>>

\* the wall clock passes the timeout while the search runs
Tick ==
    /\ pc = "search"
    /\ ~late
    /\ late' = TRUE
    /\ UNCHANGED <<interpVars, callVars>>
    /\ UNCHANGED <<world, node, interpretations, cur, plans, errors, pc, frontier,
                   visited, expanded,
                   path, planOut>>

\* planInterpretation ends by throwing: the forEach catches and moves on
Caught(message) ==
    /\ errors' = Append(errors, Error(message, cur))
    /\ cur' = cur + 1
    /\ pc' = "plan"
    /\ frontier' = {}
    /\ visited' = {}
    /\ expanded' = {}
    /\ UNCHANGED <<plans, path>>

\* an iteration that dequeues a node already visited: continue
SkipVisited ==
    /\ pc = "search"
    /\ \E item \in Dequeuable(frontier, interpretation, N) :
        /\ stringify(item.node) \in visited
        /\ frontier' = frontier \ {item}
    /\ UNCHANGED <<interpVars, callVars>>
    /\ UNCHANGED <<world, node, interpretations, cur, plans, errors, pc, visited, expanded, late,
                   path, planOut>>

\* an iteration that dequeues a goal node: the search returns its path, which
\* is rendered and pushed
ReturnPath ==
    /\ pc = "search"
    /\ \E item \in Dequeuable(frontier, interpretation, N) :
        /\ stringify(item.node) \notin visited
        /\ goal(interpretation, item.node) = "true"
        /\ path' = toResult(item)
        /\ plans' = Append(plans, planResult(interpretation, cur, toResult(item)))
    /\ cur' = cur + 1
    /\ pc' = "plan"
    /\ frontier' = {}
    /\ visited' = {}
    /\ expanded' = {}
    /\ UNCHANGED <<interpVars, callVars>>
    /\ UNCHANGED <<world, node, interpretations, errors, late, planOut>>

\* Expand with a visited set that holds the last node only
Expand_lastOnly ==
    /\ pc = "search"
    /\ \E item \in Dequeuable(frontier, interpretation, N) :
        /\ stringify(item.node) \notin visited
        /\ goal(interpretation, item.node) # "true"
        /\ IF goal(interpretation, item.node) # "false"
           THEN Caught(goal(interpretation, item.node))
           ELSE LET seen == {stringify(item.node)}
                    added == { FrontierNode(e.to, item, item.cost + e.cost)
                               : e \in { e \in outgoingEdges(item.node, N) :
                                             stringify(e.to) \notin seen } }
                IN  IF late
                    THEN Caught(TypeError)
                    ELSE /\ visited' = seen
                         /\ expanded' = expanded \cup {item.node}
                         /\ frontier' = (frontier \ {item}) \cup added
                         /\ UNCHANGED <<cur, plans, errors, pc, path>>
    /\ UNCHANGED <<interpVars, callVars>>
    /\ UNCHANGED <<world, node, interpretations, late, planOut>>

\* an iteration that dequeues a node that is no goal: expand it, then give up
\* if the search has taken too long (undefined is returned, and
\* convertPathToPlan faults on it); a fault of the goal test ends the search too
Expand ==
    /\ pc = "search"
    /\ \E item \in Dequeuable(frontier, interpretation, N) :
        /\ stringify(item.node) \notin visited
        /\ goal(interpretation, item.node) # "true"
        /\ IF goal(interpretation, item.node) # "false"
           THEN Caught(goal(interpretation, item.node))
           ELSE LET seen == visited \cup {stringify(item.node)}
                    added == { FrontierNode(e.to, item, item.cost + e.cost)
                               : e \in { e \in outgoingEdges(item.node, N) :
                                             stringify(e.to) \notin seen } }
                IN  IF late
                    THEN Caught(TypeError)
                    ELSE /\ visited' = seen
                         /\ expanded' = expanded \cup {item.node}
                         /\ frontier' = (frontier \ {item}) \cup added
                         /\ UNCHANGED <<cur, plans, errors, pc, path>>
    /\ UNCHANGED <<interpVars, callVars>>
    /\ UNCHANGED <<world, node, interpretations, late, planOut>>

\* the frontier is empty: undefined is returned, and convertPathToPlan faults
Exhausted ==
    /\ pc = "search"
    /\ frontier = {}
    /\ Caught(TypeError)
    /\ UNCHANGED <<interpVars, callVars>>
    /\ UNCHANGED <<world, node, interpretations, late, planOut>>

\* the end of plan()
PlanEnd ==
    /\ pc = "plan"
    /\ cur > Len(interpretations)
    /\ planOut' = batchResult(plans, errors)
    /\ pc' = "done"
    /\ UNCHANGED <<interpVars, callVars>>
    /\ UNCHANGED <<world, node, interpretations, cur, plans, errors, frontier, visited,
                   expanded, late,
                   path>>

PlanNext ==
    StartSearch \/ Tick \/ SkipVisited \/ ReturnPath \/ Expand \/ Exhausted \/ PlanEnd

SpecPlan == PlanInit /\ [][PlanNext]_vars

\* plan() is straight-line code around the while loop of aStarSearch: a call
\* that has started keeps executing, so the step at the current position is
\* eventually taken.  Nothing forces the clock to pass the timeout.
PlanFairInit ==
    /\ world \in Worlds
    /\ node = worldToSearchState(world)
    /\ interpretations \in { <<g>> : g \in BatchGoals(world) }
    /\ cur = 1
    /\ plans = <<>>
    /\ errors = <<>>
    /\ pc = "plan"
    /\ frontier = {}
    /\ visited = {}
    /\ expanded = {}
    /\ late = FALSE
    /\ path = undefined
    /\ planOut = NoPlanOut
    /\ NoInterpreter

\* the statement at the current position of plan()
Running == StartSearch \/ SkipVisited \/ ReturnPath \/ Expand \/ Exhausted \/ PlanEnd

SpecPlanFair == PlanFairInit /\ [][PlanNext]_vars /\ WF_vars(Running)

\* ------------------------------------------------------------------------
\* SpecInterp: Interpreter.interpret on one parse
\* ------------------------------------------------------------------------
InterpInit ==
    /\ world \in InterpreterWorlds
    /\ node = worldToSearchState(world)
    /\ Idle
    /\ NoCall
    /\ parses \in { <<c>> : c \in Commands }
    /\ interpretOut = NoPlanOut
    /\ descr = TheFloor
    /\ ids = NoIds
    /\ found = Ok(<<>>)

Interpret ==
    /\ pc = "idle"
    /\ interpretOut = NoPlanOut
    /\ parses # <<>>
    /\ interpretOut' = interpret(parses, world)
    /\ UNCHANGED <<world, node, searchVars, parses, descr, ids, found, callVars>>

InterpNext == Interpret

SpecInterp == InterpInit /\ [][InterpNext]_vars

\* ------------------------------------------------------------------------
\* SpecResolve: findCandidates on an entity, a world and a restriction
\* ------------------------------------------------------------------------
NotResolved == [err |-> "pending", val |-> <<>>]

ResolveInit ==
    /\ world \in InterpreterWorlds
    /\ node = worldToSearchState(world)
    /\ Idle
    /\ NoCall
    /\ parses = <<>>
    /\ interpretOut = NoPlanOut
    /\ descr \in Entities
    /\ ids \in Restrictions
    /\ found = NotResolved

Resolve ==
    /\ found = NotResolved
    /\ found' = findCandidates(descr, world, ids)
    /\ UNCHANGED <<world, node, searchVars, parses, interpretOut, descr, ids, callVars>>

ResolveNext == Resolve

SpecResolve == ResolveInit /\ [][ResolveNext]_vars

\* ------------------------------------------------------------------------
\* SpecShrdlite: an utterance's parses are interpreted, and the
\* interpretations returned are planned
\* ------------------------------------------------------------------------
ShrdliteInit ==
    /\ world \in Worlds
    /\ node = worldToSearchState(world)
    /\ Idle
    /\ NoCall
    /\ parses \in ParseBatches
    /\ interpretOut = NoPlanOut
    /\ descr = TheFloor
    /\ ids = NoIds
    /\ found = Ok(<<>>)

\* Planner.plan is called with what interpret() returned
CallPlan ==
    /\ pc = "idle"
    /\ interpretOut.status = "returned"
    /\ interpretations' = [ i \in 1..Len(interpretOut.value) |->
                              interpretOut.value[i].interpretation ]
    /\ cur' = 1
    /\ pc' = "plan"
    /\ UNCHANGED <<world, node, plans, errors, frontier, visited, expanded, late, path, planOut,
                   interpVars, callVars>>

ShrdliteNext == Interpret \/ CallPlan \/ PlanNext

SpecShrdlite == ShrdliteInit /\ [][ShrdliteNext]_vars

\* ------------------------------------------------------------------------
\* SpecAll: one put or move command with an "all" location is interpreted and
\* planned
\* ------------------------------------------------------------------------
AllInit ==
    /\ world \in Worlds
    /\ node = worldToSearchState(world)
    /\ Idle
    /\ NoCall
    /\ parses \in { <<c>> : c \in AllCommands }
    /\ interpretOut = NoPlanOut
    /\ descr = TheFloor
    /\ ids = NoIds
    /\ found = Ok(<<>>)

SpecAll == AllInit /\ [][ShrdliteNext]_vars

\* ------------------------------------------------------------------------
\* Functions called on their own: no world is involved
\* ------------------------------------------------------------------------
NoWorld == [stacks |-> <<>>, holding |-> NULL, arm |-> 0]

CallInit(inputs) ==
    /\ world = NoWorld
    /\ node = worldToSearchState(NoWorld)
    /\ Idle
    /\ parses = <<>>
    /\ interpretOut = NoPlanOut
    /\ descr = TheFloor
    /\ ids = NoIds
    /\ found = Ok(<<>>)
    /\ input \in inputs
    /\ output = NoOutput

Returns(val) ==
    /\ ~output.done
    /\ output' = [done |-> TRUE, val |-> val]
    /\ UNCHANGED <<world, node, searchVars, interpVars, input>>

\* ------------------------------------------------------------------------
\* SpecCNF: CNFtoDNF on a conjunction of disjunctions
\* ------------------------------------------------------------------------
ClauseLiterals ==
    { Literal("leftof", <<"g", "f">>), Literal("leftof", <<"g", "k">>),
      Literal("leftof", <<"f", "k">>) }

Clauses == { c \in InjSeqs(ClauseLiterals) : Len(c) <= MaxClause }

CNFs == UNION { SeqsOfLen(Clauses, n) : n \in 0..MaxClauses }

CNFInit == CallInit({ [function |-> "CNFtoDNF", conjunction |-> c] : c \in CNFs })

CallCNFtoDNF ==
    /\ input.function = "CNFtoDNF"
    /\ Returns(CNFtoDNF(input.conjunction))

CNFNext == CallCNFtoDNF

SpecCNF == CNFInit /\ [][CNFNext]_vars

\* ------------------------------------------------------------------------
\* SpecValid: isValidRelation on two definitions and a relation
\* ------------------------------------------------------------------------
Forms == {"brick", "plank", "ball", "pyramid", "box", "table"}

Definitions ==
    { [form |-> f, size |-> z] : f \in Forms, z \in {"small", "large"} } \cup {FloorDef}

ValidInit ==
    CallInit({ [function |-> "isValidRelation", lhs |-> a, relation |-> r, rhs |-> b]
               : a \in Definitions, r \in Relations, b \in Definitions })

CallIsValidRelation ==
    /\ input.function = "isValidRelation"
    /\ Returns(isValidRelation(input.lhs, input.relation, input.rhs))

ValidNext == CallIsValidRelation

SpecValid == ValidInit /\ [][ValidNext]_vars

\* ------------------------------------------------------------------------
\* SpecDescribe: shortestDescription, in both files that define it, called on
\* an object of a world of three objects that may share form, color and size
\* ------------------------------------------------------------------------
DescribedIds == {"a", "b", "c"}

DescribedDefs ==
    [form : {"ball", "box"}, color : {"red", "blue"}, size : {"small", "large"}]

\* two columns holding some of the objects
DescribedStacks ==
    UNION { { <<SubSeq(s, 1, k), SubSeq(s, k + 1, Len(s))>> : k \in 0..Len(s) }
            : s \in InjSeqs(DescribedIds) }

DescribeInit ==
    CallInit({ [function |-> f, objectKey |-> "a", objects |-> o, stacks |-> s]
               : f \in {"shortestDescription", "Util.ts shortestDescription"},
                 o \in [DescribedIds -> DescribedDefs],
                 s \in { t \in DescribedStacks : Len(t[1]) + Len(t[2]) >= 2 } })

CallShortestDescription ==
    /\ input.function = "shortestDescription"
    /\ Returns(Ok(shortestDescription(input.objectKey, input.objects, input.stacks)))

CallUtilShortestDescription ==
    /\ input.function = "Util.ts shortestDescription"
    /\ Returns(UtilShortestDescription(input.objectKey, input.objects, input.stacks))

DescribeNext == CallShortestDescription \/ CallUtilShortestDescription

SpecDescribe == DescribeInit /\ [][DescribeNext]_vars

\* ------------------------------------------------------------------------
\* Claims about the state graph
\* ------------------------------------------------------------------------

\* C4: every edge leaving a reachable state costs at least 1 (numObjects, in
\* the model's unit), also in worlds that start with an object held.
C4_EdgeCostAtLeastOne ==
    \A e \in outgoingEdges(node, numObjects(world)) : e.cost >= numObjects(world)

\* C3: the heuristic is admissible: in every reachable state, for every goal
\* formula, h is at most the cost of every walk from the state to a goal state.
C3_Admissible ==
    \A g \in Goals(world) :
        \A c \in WalkCosts(node, g, numObjects(world), MaxHops) :
            heuristics(g, node, numObjects(world)) <= c

\* ------------------------------------------------------------------------
\* Executing a plan from a search state under the state graph's moves
\* ------------------------------------------------------------------------
Primitives == { <<"l">>, <<"r">>, <<"p">>, <<"d">> }

TokenEdges(token, from, n) ==
    IF token = <<"l">> THEN leftEdges(from, n)
    ELSE IF token = <<"r">> THEN rightEdges(from, n)
    ELSE IF token = <<"p">> THEN pickEdges(from, n)
    ELSE dropEdges(from, n)

\* the state reached, and whether every primitive token was a legal move
RECURSIVE Execute(_, _, _, _)
Execute(plan, i, from, n) ==
    IF i > Len(plan) THEN [legal |-> TRUE, node |-> from]
    ELSE IF plan[i] \notin Primitives THEN Execute(plan, i + 1, from, n)
    ELSE LET es == TokenEdges(plan[i], from, n)
         IN  IF es = {} THEN [legal |-> FALSE, node |-> from]
             ELSE Execute(plan, i + 1, (CHOOSE e \in es : TRUE).to, n)

PrimitivesOf(plan) == { i \in 1..Len(plan) : plan[i] \in Primitives }

\* cost of the edge from s to t, or -1 if the graph has no such edge
EdgeCost(s, t, n) ==
    LET es == { e \in outgoingEdges(s, n) : e.to = t }
    IN  IF es = {} THEN -1 ELSE (CHOOSE e \in es : TRUE).cost

IsGraphPath(p, n) == \A i \in 1..(Len(p) - 1) : EdgeCost(p[i], p[i + 1], n) # -1

RECURSIVE PathCost(_, _, _)
PathCost(p, i, n) ==
    IF i >= Len(p) THEN 0 ELSE EdgeCost(p[i], p[i + 1], n) + PathCost(p, i + 1, n)

\* the interpretation whose search has just returned `path`
Returned == pc = "plan" /\ path.defined
searched == interpretations[cur - 1]

\* ------------------------------------------------------------------------
\* Claims about Planner.plan and aStarSearch
\* ------------------------------------------------------------------------

\* C1: executing the primitive tokens of every plan that plan() produces,
\* from the given world, is a legal move at every step and ends in a state
\* that satisfies the goal test of the plan's interpretation.
C1_PlanReachesGoal ==
    \A i \in 1..Len(plans) :
        LET run == Execute(plans[i].plan, 1, start, N)
        IN  run.legal /\ goal(plans[i].interpretation, run.node) = "true"

C1_Witness ==
    \E i \in 1..Len(plans) :
        /\ Cardinality(PrimitivesOf(plans[i].plan)) >= 4
        /\ \E j, k \in PrimitivesOf(plans[i].plan) :
              plans[i].plan[j] = <<"p">> /\ plans[i].plan[k] = <<"d">>

\* C2: the path aStarSearch returns costs no more than any other way from
\* the start state to a goal state, with or without an object held at start.
C2_PathIsCheapest ==
    Returned => \A c \in WalkCosts(start, searched, N, MaxHops) : path.cost <= c

\* C5: the cost of the returned SearchResult is the sum of the costs of the
\* edges joining consecutive states of its path, which starts at the start
\* node and ends at a node for which the goal test is true.
C5_CostIsSumOfEdges ==
    Returned =>
        /\ Len(path.path) >= 1
        /\ path.path[1] = start
        /\ goal(searched, path.path[Len(path.path)]) = "true"
        /\ IsGraphPath(path.path, N)
        /\ path.cost = PathCost(path.path, 1, N)

C5_Witness == Returned /\ Len(path.path) >= 4

\* C6: a plan is exactly ["That is already true!"] iff the initial world
\* satisfies the goal formula, an interpretation the initial world satisfies
\* always gets that plan, and every other plan has a primitive action.
C6_AlreadyTrue ==
    /\ \A i \in 1..Len(plans) :
          /\ plans[i].plan = AlreadyTrue <=> goal(plans[i].interpretation, start) = "true"
          /\ goal(plans[i].interpretation, start) # "true"
                => PrimitivesOf(plans[i].plan) # {}
    /\ \A j \in 1..(cur - 1) :
          goal(interpretations[j], start) = "true"
             => \E i \in 1..Len(plans) : plans[i].input = j /\ plans[i].plan = AlreadyTrue

C6_Witness ==
    /\ pc = "done"
    /\ \E i \in 1..Len(plans) : plans[i].plan = AlreadyTrue
    /\ \E i \in 1..Len(plans) : plans[i].plan # AlreadyTrue

\* C16: the elapsed time is checked on every dequeue: once it exceeds the
\* timeout, the next iteration of the search abandons with a failure; no
\* visited node is skipped and no path is returned after that.
C16_TimeoutOnEveryDequeue ==
    [][(pc = "search" /\ late)
          => (pc' = "plan" /\ plans' = plans /\ Len(errors') = Len(errors) + 1)]_vars

\* C17: the closed set identifies search states by their structure (stacks,
\* holding, arm): a node dequeued and skipped as visited is one that was
\* expanded before in this search, a node dequeued and expanded was not
\* expanded before and each of its successors not expanded so far joins the
\* frontier, and the closed set holds one key for each expanded node.
C17_ClosedSetByStructure ==
    /\ [](Cardinality(visited) = Cardinality(expanded))
    /\ [][(pc = "search" /\ pc' = "search" /\ frontier' # frontier)
            => \A item \in frontier \ frontier' :
                  IF visited' = visited
                  THEN item.node \in expanded
                  ELSE /\ item.node \notin expanded
                       /\ stringify(item.node) \in visited'
                       /\ \A e \in outgoingEdges(item.node, N) :
                             e.to \in expanded' \/ \E next \in frontier' : next.node = e.to]_vars

\* the search has expanded two states that differ in the arm only, and a
\* node of the frontier is one already expanded
C17_Witness ==
    /\ pc = "search"
    /\ \E s, t \in expanded :
          s.arm # t.arm /\ s.stacks = t.stacks /\ s.holding = t.holding
    /\ \E item \in frontier : item.node \in expanded

\* the column under the arm, and the state after each move of the arm
column == node.stacks[node.arm + 1]
armAt(x) == [stacks |-> node.stacks, holding |-> node.holding, arm |-> x]
picked ==
    [stacks  |-> [i \in 1..Len(node.stacks) |->
                     IF i = node.arm + 1
                     THEN [y \in 1..(Len(column) - 1) |-> column[y]]
                     ELSE node.stacks[i]],
     holding |-> column[Len(column)],
     arm     |-> node.arm]
dropped ==
    [stacks  |-> [i \in 1..Len(node.stacks) |->
                     IF i = node.arm + 1 THEN column \o <<node.holding>> ELSE node.stacks[i]],
     holding |-> NULL,
     arm     |-> node.arm]

canPick == node.holding = NULL /\ column # <<>>
canDrop ==
    /\ node.holding # NULL
    /\ \/ column = <<>>
       \/ isValidRelation(FormSize(node.holding),
                          IF objects[column[Len(column)]].form = "box" THEN "inside" ELSE "ontop",
                          FormSize(column[Len(column)])) = "true"

successors == { e.to : e \in outgoingEdges(node, N) }

\* C18: outgoingEdges(state) has an arm-left successor iff arm > 0, an
\* arm-right successor iff arm < |stacks| - 1, a pick successor iff nothing is
\* held and the column under the arm is not empty, a drop successor iff an
\* object is held and the column is empty or the held object may be inside
\* (on a box) or ontop of (on anything else) the column's top object; it has no
\* other successor, and each successor differs from the state by that move only.
C18_Successors ==
    successors = (IF node.arm > 0 THEN {armAt(node.arm - 1)} ELSE {})
                    \cup (IF node.arm < Len(node.stacks) - 1 THEN {armAt(node.arm + 1)} ELSE {})
                    \cup (IF canPick THEN {picked} ELSE {})
                    \cup (IF canDrop THEN {dropped} ELSE {})

\* a walk has reached a state where an object is held over a column whose top
\* object it may not be put on
C18_Witness ==
    /\ node # worldToSearchState(world)
    /\ node.holding # NULL
    /\ column # <<>>
    /\ ~canDrop
    /\ Cardinality(successors) = 2

\* the number of places an object takes in a state: its positions in the
\* columns, and the arm when it is held
occurrences(id) ==
    Cardinality({ p \in (1..Len(node.stacks)) \X (1..NumObjs) :
                    p[2] <= Len(node.stacks[p[1]]) /\ node.stacks[p[1]][p[2]] = id })
        + (IF node.holding = id THEN 1 ELSE 0)

\* C27: in every state reachable from the initial search state through
\* outgoingEdges the number of columns is that of the initial world, the arm
\* is over one of the columns, at most one object is held, and every object of
\* the initial world occurs exactly once (in one column or held) while no
\* other object occurs.
C27_Conservation ==
    /\ Len(node.stacks) = Len(world.stacks)
    /\ node.arm \in 0..(Len(node.stacks) - 1)
    /\ node.holding \in Present(world) \cup {NULL}
    /\ \A i \in 1..Len(node.stacks) : Len(node.stacks[i]) <= NumObjs
    /\ \A id \in Objs : occurrences(id) = (IF id \in Present(world) THEN 1 ELSE 0)

\* a walk has picked up an object that the initial world had stacked, after
\* the arm moved and the columns changed
C27_Witness ==
    /\ node.holding # NULL
    /\ node.holding \in Flatten(world.stacks)
    /\ node.arm # world.arm
    /\ \E i \in 1..Len(node.stacks) :
          node.stacks[i] # <<>> /\ node.stacks[i] # world.stacks[i]

\* C28: when every object of the initial world that rests on another may be
\* there (inside a box, ontop of anything else), so does every object of
\* every column in every state reachable through outgoingEdges.
C28_ValidityKept ==
    (\A i \in 1..Len(world.stacks) : ValidColumn(world.stacks[i]))
        => \A i \in 1..Len(node.stacks) : ValidColumn(node.stacks[i])

\* a walk has dropped an object on another one, in a column that the initial
\* world did not have
C28_Witness ==
    /\ node.holding = NULL
    /\ column \notin Range(world.stacks)
    /\ Len(column) > 1

\* the states that outgoingEdges reaches from the states of a set
RECURSIVE closure(_, _)
closure(seen, n) ==
    LET next == seen \cup UNION { { e.to : e \in outgoingEdges(s, n) } : s \in seen }
    IN  IF next = seen THEN seen ELSE closure(next, n)

\* no state reachable from the start satisfies the i-th interpretation
noGoal(i) == \A s \in closure({start}, N) : goal(interpretations[i], s) # "true"

\* a step of the search loop that expands a node
expands ==
    /\ pc = "search" /\ pc' = "search" /\ late' = late
    /\ visited' # visited \/ expanded' # expanded \/ ~(frontier' \subseteq frontier)

\* a step that ends a search without a path while the clock is within the timeout
fails == pc = "search" /\ pc' = "plan" /\ ~late /\ errors' # errors

\* C29: without the timeout the search still ends: every state is expanded
\* at most once, plan() always comes to its end, and an interpretation with no
\* reachable goal state ends with the frontier empty (or the goal test
\* faulting) and with an error, never a plan, for that interpretation.
C29_Termination ==
    /\ [][expands => /\ Cardinality(expanded') = Cardinality(expanded) + 1
                      /\ Cardinality(visited') = Cardinality(visited) + 1]_vars
    /\ [][(fails /\ noGoal(cur))
             => \/ frontier = {}
                \/ \E item \in frontier : goal(interpretation, item.node) \notin {"true", "false"}]_vars
    /\ [](pc = "done" =>
            \A i \in 1..Len(interpretations) :
                noGoal(i) => /\ \E e \in 1..Len(errors) : errors[e].input = i
                             /\ \A p \in 1..Len(plans) : plans[p].input # i)
    /\ <>(pc = "done")

\* plan() has ended within the timeout with an error for an interpretation
\* that no reachable state satisfies
C29_Witness ==
    /\ pc = "done"
    /\ ~late
    /\ \E e \in 1..Len(errors) : noGoal(errors[e].input)

\* the plan rendered from the path the last search returned
rendered == plans[Len(plans)].plan

\* the positions of the "p" tokens in the plan, and of the picks in the path
pTokens == { j \in 1..Len(rendered) : rendered[j] = <<"p">> }
picks ==
    { i \in 1..(Len(path.path) - 1) :
        path.path[i].holding = NULL /\ path.path[i + 1].holding # NULL }

\* the k-th smallest element of a set of numbers
nth(S, k) == CHOOSE x \in S : Cardinality({ y \in S : y < x }) = k - 1

isUtterance(token) == Len(token) > 1

\* the token before position j is an utterance with this verb that ends with
\* the form of the object, and the token before that one is no utterance
announced(j, verb, id) ==
    /\ j > 1
    /\ isUtterance(rendered[j - 1])
    /\ rendered[j - 1][1] = verb
    /\ rendered[j - 1][Len(rendered[j - 1])] = objects[id].form
    /\ j > 2 => ~isUtterance(rendered[j - 2])

\* C19: in the rendered plan every "p" token comes right after exactly one
\* utterance, "Taking the <desc>" if its pick is the last pick in the path and
\* "Moving the <desc>" otherwise, <desc> describing the object picked.
C19_PickUtterance ==
    path.defined =>
        /\ Cardinality(pTokens) = Cardinality(picks)
        /\ \A k \in 1..Cardinality(picks) :
              announced(nth(pTokens, k),
                        IF nth(picks, k) = Max(picks) THEN "Taking" ELSE "Moving",
                        path.path[nth(picks, k) + 1].holding)

\* the number of objects of the world, the held one included
totalObjects == CountStacked(world.stacks) + (IF world.holding # NULL THEN 1 ELSE 0)

\* the cost table's price of an arm move, and (times t) of a pick from or a
\* drop onto a column of height h when the world has t objects
tableMove ==
    IF node.holding = NULL THEN 1
    ELSE IF objects[node.holding].size = "large" THEN 5 ELSE 3
tablePickTimes(t, h) == t + 10 * (t - h)

\* C21: edge costs follow the cost table: an arm move costs 1 with an empty
\* hand, 3 carrying a small object, 5 carrying a large one; a pick from or a
\* drop onto a column of height h costs 1 + 10*(N-h)/N with N the number of
\* objects of the world, the held one included; a drop onto an empty column
\* costs 11.  (Edge costs are kept times numObjects.)
C21_CostTable ==
    /\ \A e \in leftEdges(node, N) \cup rightEdges(node, N) : e.cost = N * tableMove
    /\ \A e \in pickEdges(node, N) \cup dropEdges(node, N) :
          e.cost * totalObjects = N * tablePickTimes(totalObjects, Len(column))
    /\ \A e \in dropEdges(node, N) : column = <<>> => e.cost = N * 11

\* the positions of the "d" tokens and of the "Dropping" utterances in the plan
dTokens == { j \in 1..Len(rendered) : rendered[j] = <<"d">> }
droppings == { j \in 1..Len(rendered) : rendered[j][1] = "Dropping" }

\* the position of the last "d" before position j, or 0
previousDrop(j) == Max({0} \cup { i \in dTokens : i < j })

\* C22: in the rendered plan a "d" token comes right after a "Dropping the
\* <desc>" utterance iff no "p" token lies between it and the previous "d" (or
\* the start of the plan); a "Dropping" utterance occurs at most once in a
\* plan, describes the object the initial world holds, and occurs only when
\* the initial world holds one.
C22_DropUtterance ==
    path.defined =>
        /\ \A j \in dTokens :
              (j - 1) \in droppings <=> pTokens \cap (previousDrop(j)..j) = {}
        /\ \A j \in droppings :
              /\ (j + 1) \in dTokens
              /\ world.holding # NULL
              /\ rendered[j][Len(rendered[j])] = objects[world.holding].form
        /\ Cardinality(droppings) <= 1

\* a plan that announces its first drop and has a later drop after a pick
C22_Witness ==
    /\ path.defined
    /\ droppings # {}
    /\ \E j \in dTokens : (j - 1) \notin droppings

\* ------------------------------------------------------------------------
\* Claims about the interpreter
\* ------------------------------------------------------------------------
Interpreted == interpretOut.status # "none"

\* the formula interpretCommand returned for the only parse
formula == interpretOut.value[1].interpretation

feasible(literal) ==
    isValidRelation(FormSize(literal.args[1]), literal.relation, defOf(literal.args[2]))
        = "true"

\* C7: every literal relation(a, b) of a formula interpretCommand returns for
\* a move or a put is physically feasible: isValidRelation(a, relation, b)
\* answers true, in the branch without "all" and in the branches with "all".
C7_LiteralsFeasible ==
    (/\ Interpreted
     /\ Len(parses) = 1
     /\ parses[1].command \in {"move", "put"}
     /\ interpretOut.status = "returned")
        => \A c \in 1..Len(formula) : \A l \in 1..Len(formula[c]) : feasible(formula[c][l])

\* C8: interpretCommand never returns an empty disjunction nor a formula
\* with an empty conjunction; when nothing survives the filters it fails
\* with the "No valid solution" error, also when both quantifiers are "all".
C8_NoEmptyFormula ==
    (Interpreted /\ Len(parses) = 1 /\ interpretOut.status = "returned")
        => /\ Len(formula) > 0
           /\ \A c \in 1..Len(formula) : Len(formula[c]) > 0

Resolved == found # NotResolved /\ descr # TheFloor

outcomes == [ i \in 1..Len(parses) |-> interpretCommand(parses[i], world) ]

inputsOf(results) == { results[k].input : k \in 1..Len(results) }

inInputOrder(results) ==
    \A k \in 1..(Len(results) - 1) : results[k].input < results[k + 1].input

interpretBatch(out) ==
    LET ok == { i \in 1..Len(parses) : out[i].err = "" }
    IN  IF ok # {}
        THEN /\ interpretOut.status = "returned"
             /\ inputsOf(interpretOut.value) = ok
             /\ Len(interpretOut.value) = Cardinality(ok)
             /\ inInputOrder(interpretOut.value)
             /\ \A k \in 1..Len(interpretOut.value) :
                   /\ interpretOut.value[k].parse = parses[interpretOut.value[k].input]
                   /\ interpretOut.value[k].interpretation
                         = out[interpretOut.value[k].input].val
        ELSE /\ interpretOut.status = "thrown"
             /\ interpretOut.value = <<Error(out[1].err, 1)>>

planBatch ==
    /\ inputsOf(plans) \cup inputsOf(errors) = 1..Len(interpretations)
    /\ inputsOf(plans) \cap inputsOf(errors) = {}
    /\ IF Len(plans) > 0
       THEN /\ planOut.status = "returned"
            /\ planOut.value = plans
            /\ Len(plans) = Cardinality(inputsOf(plans))
            /\ inInputOrder(planOut.value)
            /\ \A k \in 1..Len(planOut.value) :
                  planOut.value[k].interpretation = interpretations[planOut.value[k].input]
       ELSE /\ planOut.status = "thrown"
            /\ Len(planOut.value) = 1
            /\ planOut.value[1].input = 1
            /\ \E k \in 1..Len(errors) : errors[k] = planOut.value[1]

\* C10: interpret and plan return exactly the results of the inputs that
\* succeeded, in input order, raising nothing, when at least one input
\* succeeds; otherwise they raise the error of the first failing input.
C10_BatchSemantics ==
    /\ Interpreted => interpretBatch(outcomes)
    /\ pc = "done" => planBatch

\* one of two parses is interpreted, its error dropped, and no plan is found
C10_Witness ==
    /\ pc = "done"
    /\ Len(parses) = 2
    /\ interpretOut.status = "returned"
    /\ Len(interpretOut.value) = 1
    /\ planOut.status = "thrown"

\* what interpret() threw for the only parse
thrown(message) ==
    /\ interpretOut.status = "thrown"
    /\ interpretOut.value = <<Error(message, 1)>>

\* the objects of the world a description without location clause matches
matching(o, w) ==
    { id \in Present(w) :
        /\ (o.color = "" \/ o.color = objects[id].color)
        /\ (o.size = "" \/ o.size = objects[id].size)
        /\ (o.form = "anyform" \/ o.form = objects[id].form) }

takeOutcome(cmd, candidates) ==
    IF candidates.err # "" THEN thrown(candidates.err)
    ELSE IF Len(candidates.val) = 0 THEN thrown(ErrNoSuchEntity)
    ELSE IF contains(candidates.val, FLOOR) THEN thrown(ErrPickUpFloor)
    ELSE IF cmd.entity.quantifier = "all" /\ Len(candidates.val) > 1
    THEN thrown(ErrTakeSingle)
    ELSE /\ interpretOut.status = "returned"
         /\ Len(formula) = Len(candidates.val)
         /\ \A c \in 1..Len(formula) :
               formula[c] = <<Literal("holding", <<candidates.val[c]>>)>>
         /\ ("form" \in DOMAIN cmd.entity.object /\ cmd.entity.object.form # "floor")
               => { formula[c][1].args[1] : c \in 1..Len(formula) }
                      = matching(cmd.entity.object, world)

\* C11: a take fails when the entity resolves to no object, when it resolves
\* to the floor, and when the quantifier is "all" and several objects match;
\* otherwise the formula is one conjunction [holding(c)] per matching object
\* c and nothing else.
C11_TakeFormula ==
    (Interpreted /\ Len(parses) = 1 /\ parses[1].command = "take"
        /\ "entity" \in DOMAIN parses[1])
        => takeOutcome(parses[1], findCandidates(parses[1].entity, world, NoIds))

\* "any" with two matching objects: two disjuncts are returned
C11_Witness ==
    /\ Interpreted
    /\ Len(parses) = 1
    /\ parses[1].command = "take"
    /\ interpretOut.status = "returned"
    /\ Len(formula) = 2

supports(literal) == literal.relation = "ontop" \/ literal.relation = "inside"

\* two literals of a conjunction that put one object in two places, or two
\* objects on one support other than the floor
clash(l1, l2) ==
    /\ supports(l1)
    /\ supports(l2)
    /\ \/ l1.args[1] = l2.args[1] /\ l1.args[1] # FLOOR
       \/ l1.args[2] = l2.args[2] /\ l1.args[2] # FLOOR

\* "move all <description> ontop the floor"
allOntopFloor(cmd) ==
    /\ cmd.command = "move"
    /\ cmd.entity.quantifier = "all"
    /\ "form" \in DOMAIN cmd.entity.object
    /\ cmd.location = Location("ontop", TheFloor)

\* C12: no conjunction of a returned formula holds two ontop/inside literals
\* with the same first argument other than the floor, or with the same second
\* argument other than the floor; a conjunction putting several objects ontop
\* the floor is kept.
C12_NoClash ==
    (Interpreted /\ Len(parses) = 1 /\ interpretOut.status = "returned")
        => /\ \A c \in 1..Len(formula) :
                 \A i \in 1..Len(formula[c]) : \A j \in (i + 1)..Len(formula[c]) :
                     ~clash(formula[c][i], formula[c][j])
           /\ (allOntopFloor(parses[1]) /\ matching(parses[1].entity.object, world) # {})
                 => /\ Len(formula) = 1
                    /\ { formula[1][l] : l \in 1..Len(formula[1]) }
                          = { Literal("ontop", <<id, FLOOR>>)
                              : id \in matching(parses[1].entity.object, world) }

\* all objects of the world are to be ontop the floor, in one conjunction
C12_Witness ==
    /\ Interpreted
    /\ Len(parses) = 1
    /\ allOntopFloor(parses[1])
    /\ interpretOut.status = "returned"
    /\ Len(formula[1]) >= 2

\* C13: no literal of a formula returned for a move or a put has the floor as
\* first argument, or the floor as second argument under a relation other
\* than ontop and above; such a command fails with an error, whatever the
\* quantifiers.
C13_FloorUse ==
    (/\ Interpreted
     /\ Len(parses) = 1
     /\ parses[1].command \in {"move", "put"}
     /\ interpretOut.status = "returned")
        => \A c \in 1..Len(formula) : \A l \in 1..Len(formula[c]) :
               /\ formula[c][l].args[1] # FLOOR
               /\ formula[c][l].args[2] = FLOOR
                     => formula[c][l].relation \in {"ontop", "above"}

\* the description resolved has one location clause, and was resolved without
\* an error
ResolvedNested == found # NotResolved /\ found.err = "" /\ descr \in NestedEntities

clause == descr.object.location

\* the objects matching the clause's nested entity
nestedMatches ==
    IF clause.entity.object.form = "floor" THEN {FLOOR}
    ELSE matching(clause.entity.object, world)

\* where an object of the world is, and what it is positionally related to by
\* the clause's relation
placeOf(id) ==
    IF id = world.holding THEN WorldObject(id, -1, -1)
    ELSE WorldObject(id, findStack(id, world.stacks),
                     indexOf(world.stacks[findStack(id, world.stacks) + 1], id))
relatedTo(id) == findRelated(placeOf(id), world.stacks, clause.relation).ids

\* the clause holds for a candidate, by the rule of the given quantifier
clauseHolds(id, quantifier) ==
    IF quantifier = "all"
    THEN nestedMatches # {} /\ nestedMatches \subseteq relatedTo(id)
    ELSE nestedMatches \cap relatedTo(id) # {}

\* the objects that may be returned: those of the restriction, if one is given
eligible == IF ids.given THEN Present(world) \cap ids.ids ELSE Present(world)

\* C23: a location clause whose nested entity has quantifier "all" holds for
\* a candidate iff the objects matching the nested entity are not none and
\* are all positionally related to the candidate; with "the" or "any" it holds
\* iff at least one of them is.  The rule follows the nested entity's
\* quantifier, not the quantifier of the entity resolved.
C23_ClauseByNestedQuantifier ==
    ResolvedNested =>
        Range(found.val) = { id \in matching(descr.object.object, world) \cap eligible :
                                clauseHolds(id, clause.entity.quantifier) }

\* a formula was returned for a move command
MoveReturned ==
    /\ Interpreted
    /\ Len(parses) = 1
    /\ parses[1].command = "move"
    /\ interpretOut.status = "returned"

\* the source candidates S and the destination candidates D of the command
sources == matching(parses[1].entity.object, world)
destinations ==
    IF parses[1].location.entity.object.form = "floor" THEN {FLOOR}
    ELSE matching(parses[1].location.entity.object, world)

entityAll == parses[1].entity.quantifier = "all"
locationAll == parses[1].location.entity.quantifier = "all"

literalOf(s, d) == Literal(parses[1].location.relation, <<s, d>>)

\* the literals of a conjunction
literalsOf(conjunction) == { conjunction[l] : l \in 1..Len(conjunction) }

\* the conjunctions that give every source one destination, and those that
\* give every destination one source
sourceAssignments == { { literalOf(s, a[s]) : s \in sources } : a \in [sources -> destinations] }
destinationAssignments ==
    { { literalOf(a[d], d) : d \in destinations } : a \in [destinations -> sources] }

\* every literal is feasible and no two literals clash
passes(literals) ==
    /\ \A l \in literals : feasible(l)
    /\ \A l1, l2 \in literals : l1 # l2 => ~clash(l1, l2)

\* C24: for a move with exactly one "all": if the entity is "all", every
\* returned conjunction has for each source s exactly one literal
\* relation(s, d) with d a destination and no other literal; if the location
\* is "all", it has for each destination d exactly one literal relation(s, d)
\* with s a source and no other literal; and every such assignment that is
\* feasible and passes the pruning of clashing literals is returned.
C24_OneAll ==
    (MoveReturned /\ entityAll # locationAll)
        => /\ \A c \in 1..Len(formula) :
                 Len(formula[c]) = Cardinality(literalsOf(formula[c]))
           /\ { literalsOf(formula[c]) : c \in 1..Len(formula) }
                 = { literals \in (IF entityAll THEN sourceAssignments
                                   ELSE destinationAssignments) : passes(literals) }

\* the location is "all" with two destinations, and two sources can take them
C24_Witness ==
    /\ MoveReturned
    /\ locationAll
    /\ ~entityAll
    /\ Cardinality(destinations) = 2
    /\ Len(formula) >= 2

\* C25: for a move whose entity and location are both "all", one conjunction
\* is returned, without duplicate literals, and it contains relation(s, d) for
\* every source s and every destination d.
C25_AllToAll ==
    (MoveReturned /\ entityAll /\ locationAll)
        => /\ Len(formula) = 1
           /\ Len(formula[1]) = Cardinality(literalsOf(formula[1]))
           /\ { literalOf(s, d) : s \in sources, d \in destinations }
                 \subseteq literalsOf(formula[1])

horizontal == {"beside", "leftof", "rightof"}

\* the source objects of a put or move command
sourcesOf(cmd) ==
    IF cmd.command = "put" THEN {world.holding} \ {NULL}
    ELSE matching(cmd.entity.object, world)

\* a put or move whose location is "all" with a horizontal relation, and whose
\* single source object is among the destination candidates
relatesToItself(cmd) ==
    /\ cmd.command \in {"put", "move"}
    /\ cmd.location.entity.quantifier = "all"
    /\ cmd.location.relation \in horizontal
    /\ cmd.location.entity.object.form # "floor"
    /\ Cardinality(sourcesOf(cmd)) = 1
    /\ sourcesOf(cmd) \subseteq matching(cmd.location.entity.object, world)

\* the literal relating the source of the command to itself
selfLiteral(cmd) ==
    LET s == CHOOSE s \in sourcesOf(cmd) : TRUE
    IN  Literal(cmd.location.relation, <<s, s>>)

\* the places in interpret()'s result of the i-th parse
placesOf(i) ==
    IF interpretOut.status = "returned"
    THEN { k \in 1..Len(interpretOut.value) : interpretOut.value[k].input = i }
    ELSE {}

\* C26: a put or move whose location is "all" with a horizontal relation and
\* whose single source is among the destinations is interpreted without an
\* error, as a formula with a literal relating the object to itself; the
\* search finds no state that satisfies it and the command gets no plan.
C26_SelfRelation ==
    \A i \in 1..Len(parses) :
        (Interpreted /\ relatesToItself(parses[i]))
            => /\ placesOf(i) # {}
               /\ \A k \in placesOf(i) :
                     /\ \E c \in 1..Len(interpretOut.value[k].interpretation) :
                           selfLiteral(parses[i])
                              \in literalsOf(interpretOut.value[k].interpretation[c])
                     /\ \A p \in 1..Len(plans) : plans[p].input # k
                     /\ pc = "done" => \E e \in 1..Len(errors) : errors[e].input = k

\* such a command was interpreted and the search for it has ended with every
\* reachable state expanded
C26_Witness ==
    /\ pc = "done"
    /\ \E i \in 1..Len(parses) : relatesToItself(parses[i]) /\ placesOf(i) # {}
    /\ ~late

\* ------------------------------------------------------------------------
\* the errors the interpreter raises on purpose
documented ==
    { ErrNoEntity, ErrNoSuchEntity, ErrAmbiguous, ErrPickUpFloor, ErrNotHolding,
      ErrNoValid, ErrTakeSingle, ErrNothingFloor }

\* a take command whose entity has a location clause
located(cmd) ==
    /\ cmd.command = "take"
    /\ "entity" \in DOMAIN cmd
    /\ "location" \in DOMAIN cmd.entity.object

\* the objects a returned formula asks to be held
taken ==
    { formula[c][1].args[1] : c \in { c \in 1..Len(formula) : formula[c] # <<>> } }

\* C30: interpretCommand returns a formula or fails with one of the
\* interpreter's own errors, in worlds with a held object too; a description
\* with a location clause is resolved without a fault on the held object's
\* position (-1,-1), and the held object is never found to be related by
\* position to an object of the stacks.
C30_HeldObject ==
    Interpreted =>
        /\ interpretOut.status = "thrown" => interpretOut.value[1].message \in documented
        /\ (/\ interpretOut.status = "returned"
            /\ located(parses[1])
            /\ world.holding # NULL
            /\ parses[1].entity.object.location.entity.object.form # "floor")
               => world.holding \notin taken

\* Claims about functions called on their own
\* ------------------------------------------------------------------------
Converted == output.done /\ input.function = "CNFtoDNF"

RECURSIVE Product(_, _)
Product(conjunction, i) ==
    IF i > Len(conjunction) THEN 1
    ELSE Len(conjunction[i]) * Product(conjunction, i + 1)

\* one literal of each clause, in the order of the clauses
Choices(conjunction) ==
    { ch \in [1..Len(conjunction) -> ClauseLiterals] :
        \A i \in 1..Len(conjunction) : ch[i] \in Range(conjunction[i]) }

distributionLaw(conjunction, dnf) ==
    /\ Len(dnf) = Product(conjunction, 1)
    /\ \A c \in 1..Len(dnf) :
          /\ Len(dnf[c]) = Len(conjunction)
          /\ \A i \in 1..Len(conjunction) : dnf[c][i] \in Range(conjunction[i])
    /\ \A ch \in Choices(conjunction) : \E c \in 1..Len(dnf) : dnf[c] = ch

noEmptyClause(conjunction) == \A i \in 1..Len(conjunction) : Len(conjunction[i]) > 0

\* C14 as stated: for every CNF whose clauses are all non-empty, CNFtoDNF
\* returns as many conjunctions as the product of the clause sizes, each one
\* a choice of one literal per clause, and every such choice is returned.
C14_DistributionLaw ==
    (Converted /\ noEmptyClause(input.conjunction))
        => distributionLaw(input.conjunction, output.val)

\* C14: for every CNF with at least one clause and no empty clause, CNFtoDNF
\* returns as many conjunctions as the product of the clause sizes, each one
\* a choice of one literal per clause, and every such choice is returned; for
\* the CNF without clauses it returns the empty disjunction.
C14_DistributionLawOfClauses ==
    /\ (Converted /\ noEmptyClause(input.conjunction) /\ Len(input.conjunction) > 0)
          => distributionLaw(input.conjunction, output.val)
    /\ (Converted /\ Len(input.conjunction) = 0) => output.val = <<>>

\* three clauses of two literals give eight conjunctions
C14_Witness ==
    /\ Converted
    /\ Len(input.conjunction) = 3
    /\ \A i \in 1..3 : Len(input.conjunction[i]) = 2
    /\ Len(output.val) = 8

\* true, false, or an error raised about the floor
outcome(r) == IF r \in {"true", "false"} THEN r ELSE "error"

Validated == output.done /\ input.function = "isValidRelation"

\* C15: isValidRelation(a, "under", b) and isValidRelation(b, "above", a)
\* have the same outcome for all definitions a and b, the floor included:
\* both true, both false, or both raise an error about the floor.
C15_UnderAboveSymmetry ==
    (Validated /\ input.relation = "under")
        => outcome(output.val) = outcome(isValidRelation(input.rhs, "above", input.lhs))

\* the floor under a box: both calls answer true
C15_Witness ==
    /\ Validated
    /\ input.relation = "under"
    /\ input.lhs = FloorDef
    /\ input.rhs.form = "box"
    /\ output.val = "true"

Described ==
    /\ output.done
    /\ input.function \in {"shortestDescription", "Util.ts shortestDescription"}

\* the target's own definition, and the objects of the stacks other than it
target == input.objects[input.objectKey]
others == Flatten(input.stacks) \ {input.objectKey}

agrees(o, tuple) == \A p \in Range(tuple) : input.objects[o][p] = target[p]
unique(tuple) == \A o \in others : ~agrees(o, tuple)

firstUnique ==
    IF unique(<<"form">>) THEN <<"form">>
    ELSE IF unique(<<"color", "form">>) THEN <<"color", "form">>
    ELSE IF unique(<<"size", "form">>) THEN <<"size", "form">>
    ELSE <<"size", "color", "form">>

\* the values of a tuple with one space between two values
spaced(tuple) ==
    [i \in 1..(2 * Len(tuple) - 1) |-> IF i % 2 = 1 THEN target[tuple[(i + 1) \div 2]] ELSE " "]

\* C20: shortestDescription returns the values of the first tuple among
\* [form], [color,form], [size,form] on which no other object of the stacks
\* agrees with the target, and the values of [size,color,form] when none of
\* the three is unique, joined by single spaces with no space before or after.
C20_ShortestDescription ==
    Described => output.val = Ok(spaced(firstUnique))

====
